---- MODULE Spec2Model ----
(***************************************************************************)
(* Verification model of the Deus-Ex-Machina prediction pipeline:          *)
(*   src/src/theory/quantum.py        orbital filling (madelung_rule)      *)
(*   src/src/theory/confidence.py     ConfidenceScorer                     *)
(*   src/src/theory/generator.py      ElementGenerator                     *)
(*   src/src/level1/bonding.py        BondingRules                         *)
(*   src/src/crystallization/detector.py  CrystallizationDetector          *)
(*                                                                         *)
(* The program is a library of pure functions.  Each specification below   *)
(* draws the arguments of a call in its Init and applies the functions in  *)
(* its actions; `op` names the last function applied and `ret` holds what  *)
(* it returned (or the exception it raised).                               *)
(*                                                                         *)
(* Number representation.  Python floats are modelled in fixed point:      *)
(*   electronegativity   in hundredths     (2.55  -> 255)                  *)
(*   confidence          in hundredths     (0.85  -> 85)                   *)
(*   stability score     in ten-thousandths (0.765 -> 7650)                *)
(*   relative violation, threshold, conjugation in thousandths             *)
(* Every comparison of the source is between such scaled values.           *)
(***************************************************************************)
EXTENDS Integers, Sequences, FiniteSets, TLC

VARIABLES
    op,                  \* name of the last function applied ("init" before any)
    ret,                 \* its result: [raised |-> ..., value |-> ...]
    elem_a, elem_b,      \* the two Element arguments of the BondingRules calls
    bond_order, bond_type, \* extra arguments of compute_stability_score
    Z,                   \* argument of ElementGenerator.generate
    mendeleev,           \* what the mendeleev package answers for Z (environment)
    profile,             \* ConfidenceScorer.profile (loaded at construction)
    element_names,       \* keys of ElementGenerator._element_names
    violation_threshold, \* CrystallizationDetector.violation_threshold
    relative_violation,  \* argument of classify_violation
    features,            \* StructuralFeatures argument of classify_violation
    molecule,            \* structure argument of measure_additivity_violation
    naive,               \* what the caller's naive_fn answers for structure
    actual,              \* actual_value argument of measure_additivity_violation
    measure_confidence,  \* confidence argument of measure_additivity_violation
    compact,             \* use_noble_gas_core argument of madelung_rule
    configuration,       \* the configuration the caller got from madelung_rule
    agree,               \* models_agree argument of electron_config_confidence
    neutrons,            \* neutron-count argument of half_life_confidence
    stack,               \* activation records of the BondingRules call cycle
    callers              \* the concurrent callers of one ConfidenceScorer

vars == <<op, ret, elem_a, elem_b, bond_order, bond_type, Z, mendeleev, profile,
          element_names, violation_threshold, relative_violation, features,
          molecule, naive, actual, measure_confidence, compact,
          configuration, agree, neutrons, stack, callers>>

(***************************************************************************)
(* Python values                                                           *)
(***************************************************************************)
\* Optional[float]: None is the empty tuple, a present value v is <<v>>.
None == <<>>

Some(v) == <<v>>

\* A call that returned v / a call that raised exception e.
Return(v) == [raised |-> "none", value |-> v]

Raise(e) == [raised |-> e, value |-> None]

NoCall == [raised |-> "none", value |-> None]

Min2(x, y) == IF x <= y THEN x ELSE y

Min3(x, y, z) == Min2(Min2(x, y), z)

Abs(x) == IF x < 0 THEN -x ELSE x

\* The empty dict {}
EmptyDict == [k \in {} |-> 0]

\* dict.get(key, default)
Get(d, key, default) == IF key \in DOMAIN d THEN d[key] ELSE default

(***************************************************************************)
(* src/src/level1/bonding.py : BondingRules                                *)
(*                                                                         *)
(* An Element is modelled by the fields BondingRules reads:                *)
(*   atomic_number, valence_electrons, electronegativity (Optional, in     *)
(*   hundredths), confidence (dict property -> hundredths).                *)
(* The reasoning string is modelled by a record of the pieces that are     *)
(* interpolated into it, an element's symbol being represented by its      *)
(* atomic number.                                                          *)
(***************************************************************************)
RECURSIVE can_bond(_, _)
RECURSIVE predict_all_bond_orders(_, _)
RECURSIVE predict_bond_order(_, _)

PyBool(b) == IF b THEN "True" ELSE "False"

\* BondPrediction(...)
BondPrediction(cb, bt, bo, ss, conf, breakdown, reasoning) ==
    [can_bond |-> cb, bond_type |-> bt, bond_order |-> bo, stability_score |-> ss,
     confidence |-> conf, confidence_breakdown |-> breakdown, reasoning |-> reasoning]

\* {1: "-", 2: "=", 3: triple}.get(bond_order, '?')
bond_symbols(bo) ==
    IF bo = 1 THEN "-" ELSE IF bo = 2 THEN "=" ELSE IF bo = 3 THEN "#" ELSE "?"

\* Variant: the helium case (2 valence electrons, Z <= 2) is left out.
is_noble_gas_without_helium(elem) == elem.valence_electrons = 8

is_noble_gas(elem) ==
    (elem.valence_electrons = 2 /\ elem.atomic_number <= 2)
    \/ (elem.valence_electrons = 8)

\* Variant: the lower threshold is inclusive (delta_en <= 0.5 is nonpolar).
classify_bond_type_inclusive(a, b) ==
    IF a.electronegativity = None \/ b.electronegativity = None
    THEN Raise("TypeError")
    ELSE LET delta_en == Abs(a.electronegativity[1] - b.electronegativity[1])
         IN  IF delta_en <= 50 THEN Return("nonpolar_covalent")
             ELSE IF delta_en < 170 THEN Return("polar_covalent")
             ELSE Return("ionic")

\* abs(a.electronegativity - b.electronegativity) raises TypeError on None.
classify_bond_type(a, b) ==
    IF a.electronegativity = None \/ b.electronegativity = None
    THEN Raise("TypeError")
    ELSE LET delta_en == Abs(a.electronegativity[1] - b.electronegativity[1])
         IN  IF delta_en < 50 THEN Return("nonpolar_covalent")
             ELSE IF delta_en < 170 THEN Return("polar_covalent")
             ELSE Return("ionic")

satisfies_octet(a, b) ==
    LET target_a == IF a.atomic_number <= 2 THEN 2 ELSE 8
        target_b == IF b.atomic_number <= 2 THEN 2 ELSE 8
        needs_a  == target_a - a.valence_electrons
        needs_b  == target_b - b.valence_electrons
    IN  needs_a > 0 /\ needs_b > 0

satisfies_octet_with_order(a, b, bo) ==
    LET target_a == IF a.atomic_number <= 2 THEN 2 ELSE 8
        target_b == IF b.atomic_number <= 2 THEN 2 ELSE 8
        needs_a  == target_a - a.valence_electrons
        needs_b  == target_b - b.valence_electrons
        after_bond_a == a.valence_electrons + bo
        after_bond_b == b.valence_electrons + bo
    IN  needs_a > 0 /\ needs_b > 0
        /\ after_bond_a <= target_a + 2
        /\ after_bond_b <= target_b + 2

\* The base_stability dict lookup, .get(bond_type, 0.5)
base_stability(bt) ==
    IF bt \in {"nonpolar_covalent", "polar_covalent"} THEN 8500
    ELSE IF bt = "ionic" THEN 8000
    ELSE IF bt \in {"none", "unknown"} THEN 0
    ELSE 5000

\* {1: s1, 2: s2, 3: s3}.get(bond_order, 0.5)
OrderTable(s1, s2, s3, bo) ==
    IF bo = 1 THEN s1 ELSE IF bo = 2 THEN s2 ELSE IF bo = 3 THEN s3 ELSE 5000

\* Variant: the carbon-oxygen entry matches (C, O) but not (O, C).
compute_stability_score_ordered(a, b, bo, bt) ==
    LET za == a.atomic_number
        zb == b.atomic_number
        pair == {za, zb}
    IN  IF bt = "ionic" THEN (IF bo = 1 THEN 9000 ELSE 2000)
        ELSE IF za = 6 /\ zb = 6 THEN OrderTable(9000, 8800, 8500, bo)
        ELSE IF pair = {1, 6} THEN (IF bo = 1 THEN 9200 ELSE 1000)
        ELSE IF za = 6 /\ zb = 8 THEN OrderTable(8500, 9500, 2000, bo)
        ELSE IF pair = {6, 7} THEN OrderTable(8800, 8600, 8200, bo)
        ELSE IF za = 7 /\ zb = 7 THEN OrderTable(7000, 8000, 9500, bo)
        ELSE IF za = 8 /\ zb = 8 THEN OrderTable(8200, 9200, 500, bo)
        ELSE IF pair = {7, 8} THEN OrderTable(8200, 8800, 6000, bo)
        ELSE IF bo = 1 THEN base_stability(bt)
        ELSE IF bo = 2 THEN (base_stability(bt) * 90) \div 100
        ELSE IF bo = 3 THEN (base_stability(bt) * 75) \div 100
        ELSE 5000

compute_stability_score(a, b, bo, bt) ==
    LET za == a.atomic_number
        zb == b.atomic_number
        pair == {za, zb}
    IN  IF bt = "ionic" THEN (IF bo = 1 THEN 9000 ELSE 2000)
        ELSE IF za = 6 /\ zb = 6 THEN OrderTable(9000, 8800, 8500, bo)
        ELSE IF pair = {1, 6} THEN (IF bo = 1 THEN 9200 ELSE 1000)
        ELSE IF pair = {6, 8} THEN OrderTable(8500, 9500, 2000, bo)
        ELSE IF pair = {6, 7} THEN OrderTable(8800, 8600, 8200, bo)
        ELSE IF za = 7 /\ zb = 7 THEN OrderTable(7000, 8000, 9500, bo)
        ELSE IF za = 8 /\ zb = 8 THEN OrderTable(8200, 9200, 500, bo)
        ELSE IF pair = {7, 8} THEN OrderTable(8200, 8800, 6000, bo)
        ELSE IF bo = 1 THEN base_stability(bt)
        ELSE IF bo = 2 THEN (base_stability(bt) * 90) \div 100
        ELSE IF bo = 3 THEN (base_stability(bt) * 75) \div 100
        ELSE 5000

properties_used == <<"electron_configuration", "electronegativity">>

\* min(breakdown.values())
MinOfValues(d) == CHOOSE m \in {d[k] : k \in DOMAIN d} : \A k \in DOMAIN d : m <= d[k]

\* Variant: the overall confidence is the mean of the breakdown, not its minimum.
_compute_confidence_average(a, b) ==
    LET breakdown == [prop \in {properties_used[i] : i \in DOMAIN properties_used} |->
                          Min2(Get(a.confidence, prop, 0), Get(b.confidence, prop, 0))]
    IN  <<(breakdown.electron_configuration + breakdown.electronegativity) \div 2,
          breakdown>>

\* Returns the tuple (overall, breakdown).
_compute_confidence(a, b) ==
    LET breakdown == [prop \in {properties_used[i] : i \in DOMAIN properties_used} |->
                          Min2(Get(a.confidence, prop, 0), Get(b.confidence, prop, 0))]
    IN  <<MinOfValues(breakdown), breakdown>>

\* The "no bond" prediction naming the inert element.
NobleGasPrediction(elem) ==
    BondPrediction("False", "none", 0, 10000, 100, [valence |-> 100],
                   [text |-> "is a noble gas (full valence shell)",
                    symbol |-> elem.atomic_number])

\* Variant: the "unknown" prediction carries the confidence of the noble-gas one.
UnknownPrediction_confident ==
    BondPrediction("None", "unknown", 0, 0, 100, EmptyDict,
                   [text |-> "Electronegativity data unavailable"])

UnknownPrediction ==
    BondPrediction("None", "unknown", 0, 0, 0, EmptyDict,
                   [text |-> "Electronegativity data unavailable"])

can_bond(a, b) ==
    IF is_noble_gas(a) THEN Return(NobleGasPrediction(a))
    ELSE IF is_noble_gas(b) THEN Return(NobleGasPrediction(b))
    ELSE IF a.electronegativity = None \/ b.electronegativity = None
    THEN Return(UnknownPrediction)
    ELSE LET bo == predict_bond_order(a, b)
             bt == classify_bond_type(a, b)
         IN  IF bo.raised # "none" THEN bo
             ELSE IF bt.raised # "none" THEN bt
             ELSE LET delta_en == Abs(a.electronegativity[1] - b.electronegativity[1])
                      can_form_bond == satisfies_octet(a, b)
                      stability_score ==
                          compute_stability_score(a, b, bo.value, bt.value)
                      cc == _compute_confidence(a, b)
                  IN  Return(BondPrediction(
                          PyBool(can_form_bond), bt.value, bo.value, stability_score,
                          cc[1], cc[2],
                          [text |-> "valence", symbol_a |-> a.atomic_number,
                           bond_symbol |-> bond_symbols(bo.value),
                           symbol_b |-> b.atomic_number,
                           delta_en |-> delta_en, bond_type |-> bt.value,
                           valence_a |-> a.valence_electrons,
                           valence_b |-> b.valence_electrons]))

\* Variant: hydrogen is not forced to single bonds.
max_order_without_hydrogen(a, b) ==
    LET by_valence == Min3(a.valence_electrons, b.valence_electrons, 3)
    IN  IF a.atomic_number = 8 /\ b.atomic_number = 8
        THEN Min2(by_valence, 2) ELSE by_valence

\* Variant: oxygen-oxygen is not capped at double bonds.
max_order_without_oxygen_cap(a, b) ==
    LET by_valence == Min3(a.valence_electrons, b.valence_electrons, 3)
    IN  IF a.atomic_number = 1 \/ b.atomic_number = 1 THEN 1 ELSE by_valence

\* The maximum bond order predict_all_bond_orders enumerates up to.
max_order(a, b) ==
    LET by_valence == Min3(a.valence_electrons, b.valence_electrons, 3)
        hydrogen   == IF a.atomic_number = 1 \/ b.atomic_number = 1
                      THEN 1 ELSE by_valence
    IN  IF a.atomic_number = 8 /\ b.atomic_number = 8
        THEN Min2(hydrogen, 2) ELSE hydrogen

predict_all_bond_orders(a, b) ==
    IF is_noble_gas(a) \/ is_noble_gas(b)
    THEN LET r == can_bond(a, b)
         IN  IF r.raised # "none" THEN r ELSE Return(<<r.value>>)
    ELSE IF a.electronegativity = None \/ b.electronegativity = None
    THEN LET r == can_bond(a, b)
         IN  IF r.raised # "none" THEN r ELSE Return(<<r.value>>)
    ELSE LET bt == classify_bond_type(a, b)
         IN  IF bt.raised # "none" THEN bt
             ELSE LET delta_en == Abs(a.electronegativity[1] - b.electronegativity[1])
                      cc == _compute_confidence(a, b)
                  IN  Return([bo \in 1..max_order(a, b) |->
                          LET stability_score ==
                                  compute_stability_score(a, b, bo, bt.value)
                          IN  BondPrediction(
                                  PyBool(satisfies_octet_with_order(a, b, bo)),
                                  bt.value, bo, stability_score, cc[1], cc[2],
                                  [text |-> "order", symbol_a |-> a.atomic_number,
                                   bond_symbol |-> bond_symbols(bo),
                                   symbol_b |-> b.atomic_number,
                                   delta_en |-> delta_en, bond_type |-> bt.value,
                                   order |-> bo, stability |-> stability_score])])

\* Variant: the first prediction is taken instead of the most stable one.
MostStable_first(all_bonds) == all_bonds[1]

\* max(all_bonds, key=lambda b: b.stability_score): the first maximal item.
MostStable(all_bonds) ==
    LET i == CHOOSE i \in DOMAIN all_bonds :
                 /\ \A j \in DOMAIN all_bonds :
                        all_bonds[j].stability_score <= all_bonds[i].stability_score
                 /\ \A j \in 1..(i - 1) :
                        all_bonds[j].stability_score < all_bonds[i].stability_score
    IN  all_bonds[i]

predict_bond_order(a, b) ==
    LET default_order == 1
    IN  IF a.atomic_number = 1 \/ b.atomic_number = 1 THEN Return(1)
        ELSE LET all_bonds == predict_all_bond_orders(a, b)
             IN  IF all_bonds.raised # "none" THEN all_bonds
                 ELSE IF all_bonds.value = <<>> THEN Return(default_order)
                 ELSE Return(MostStable(all_bonds.value).bond_order)

(***************************************************************************)
(* src/src/theory/quantum.py                                               *)
(*                                                                         *)
(* A configuration is a sequence of (n, orbital, count) tuples.  A         *)
(* configuration STRING is modelled by its tokens: the noble-gas core      *)
(* symbol between the brackets ("" when the string has no bracket) and the *)
(* sequence of "{n}{orbital}{count}" items joined by blanks.               *)
(***************************************************************************)
ORBITAL_CAPACITY == [s |-> 2, p |-> 6, d |-> 10, f |-> 14, g |-> 18]

\* The dict NOBLE_GASES, atomic number -> symbol
NOBLE_GASES ==
    [z \in {2, 10, 18, 36, 54, 86, 118} |->
        CASE z = 2 -> "He" [] z = 10 -> "Ne" [] z = 18 -> "Ar" [] z = 36 -> "Kr"
          [] z = 54 -> "Xe" [] z = 86 -> "Rn" [] z = 118 -> "Og"]

\* Keys of the MADELUNG_EXCEPTIONS dict
MADELUNG_EXCEPTIONS ==
    {24, 29, 41, 42, 44, 45, 46, 47, 57, 58, 64, 78, 79, 89, 90, 91, 92, 93, 96, 103}

\* {'s': 0, 'p': 1, 'd': 2, 'f': 3, 'g': 4}
l_order == [s |-> 0, p |-> 1, d |-> 2, f |-> 3, g |-> 4]

OrbitalLetters == <<"s", "p", "d", "f", "g">>

\* Lexicographic order on pairs of integers (Python tuple comparison)
PairLess(x, y) == x[1] < y[1] \/ (x[1] = y[1] /\ x[2] < y[2])

\* sorted(items, key=...) / list.sort(key=...): a stable sort of the sequence
\* `items`, key[i] being the sort key of items[i].
RECURSIVE SortIndices(_, _)
SortIndices(remaining, key) ==
    IF remaining = {} THEN <<>>
    ELSE LET first == CHOOSE i \in remaining :
                          \A j \in remaining \ {i} :
                              \/ PairLess(key[i], key[j])
                              \/ (key[i] = key[j] /\ i < j)
         IN  <<first>> \o SortIndices(remaining \ {first}, key)

SortByKey(items, key) ==
    LET order == SortIndices(DOMAIN items, key)
    IN  [k \in DOMAIN order |-> items[order[k]]]

\* Sort key of _aufbau_order: (n + l, n)
AufbauKey(x) == <<x[1] + l_order[x[2]], x[1]>>

_aufbau_order ==
    LET \* for n in range(1, 11): for l_symbol in ['s','p','d','f','g']
        candidates == [k \in 1..50 |->
                          <<((k - 1) \div 5) + 1, OrbitalLetters[((k - 1) % 5) + 1]>>]
        orbitals == SelectSeq(candidates, LAMBDA x : l_order[x[2]] < x[1])
    IN  SortByKey(orbitals, [i \in DOMAIN orbitals |-> AufbauKey(orbitals[i])])

\* The filling loop of madelung_rule, from position i of the aufbau order.
RECURSIVE Fill(_, _, _, _)
Fill(aufbau, i, electrons_remaining, config) ==
    IF i > Len(aufbau) \/ electrons_remaining <= 0 THEN config
    ELSE LET n == aufbau[i][1]
             orbital == aufbau[i][2]
             capacity == ORBITAL_CAPACITY[orbital]
             electrons_in_orbital == Min2(electrons_remaining, capacity)
         IN  Fill(aufbau, i + 1, electrons_remaining - electrons_in_orbital,
                  IF electrons_in_orbital > 0
                  THEN Append(config, <<n, orbital, electrons_in_orbital>>)
                  ELSE config)

\* Keys of the EXCEPTION_CONFIGS dict
ExceptionZ == {24, 29, 41, 42, 44, 45, 46, 47, 57, 58, 64, 78, 79, 89, 90, 91, 92, 93, 96, 103}

\* The EXCEPTION_CONFIGS dict: full configurations as (n, orbital, count) tuples.
EXCEPTION_CONFIGS ==
    [z \in ExceptionZ |->
        CASE z = 24 -> <<<<1, "s", 2>>, <<2, "s", 2>>,
                      <<2, "p", 6>>, <<3, "s", 2>>, <<3, "p", 6>>, <<3, "d", 5>>,
                      <<4, "s", 1>>>>
              [] z = 29 -> <<<<1, "s", 2>>, <<2, "s", 2>>, <<2, "p", 6>>, <<3, "s", 2>>,
                      <<3, "p", 6>>, <<3, "d", 10>>, <<4, "s", 1>>>>
              [] z = 41 -> <<<<1, "s", 2>>, <<2, "s", 2>>, <<2, "p", 6>>, <<3, "s", 2>>,
                      <<3, "p", 6>>, <<3, "d", 10>>, <<4, "s", 2>>, <<4, "p", 6>>,
                      <<4, "d", 4>>, <<5, "s", 1>>>>
              [] z = 42 -> <<<<1, "s", 2>>, <<2, "s", 2>>, <<2, "p", 6>>, <<3, "s", 2>>,
                      <<3, "p", 6>>, <<3, "d", 10>>, <<4, "s", 2>>, <<4, "p", 6>>,
                      <<4, "d", 5>>, <<5, "s", 1>>>>
              [] z = 44 -> <<<<1, "s", 2>>, <<2, "s", 2>>, <<2, "p", 6>>, <<3, "s", 2>>,
                      <<3, "p", 6>>, <<3, "d", 10>>, <<4, "s", 2>>, <<4, "p", 6>>,
                      <<4, "d", 7>>, <<5, "s", 1>>>>
              [] z = 45 -> <<<<1, "s", 2>>, <<2, "s", 2>>, <<2, "p", 6>>, <<3, "s", 2>>,
                      <<3, "p", 6>>, <<3, "d", 10>>, <<4, "s", 2>>, <<4, "p", 6>>,
                      <<4, "d", 8>>, <<5, "s", 1>>>>
              [] z = 46 -> <<<<1, "s", 2>>, <<2, "s", 2>>, <<2, "p", 6>>, <<3, "s", 2>>,
                      <<3, "p", 6>>, <<3, "d", 10>>, <<4, "s", 2>>, <<4, "p", 6>>,
                      <<4, "d", 10>>>>
              [] z = 47 -> <<<<1, "s", 2>>, <<2, "s", 2>>, <<2, "p", 6>>, <<3, "s", 2>>,
                      <<3, "p", 6>>, <<3, "d", 10>>, <<4, "s", 2>>, <<4, "p", 6>>,
                      <<4, "d", 10>>, <<5, "s", 1>>>>
              [] z = 57 -> <<<<1, "s", 2>>, <<2, "s", 2>>, <<2, "p", 6>>, <<3, "s", 2>>,
                      <<3, "p", 6>>, <<3, "d", 10>>, <<4, "s", 2>>, <<4, "p", 6>>,
                      <<4, "d", 10>>, <<5, "s", 2>>, <<5, "p", 6>>, <<5, "d", 1>>,
                      <<6, "s", 2>>>>
              [] z = 58 -> <<<<1, "s", 2>>, <<2, "s", 2>>, <<2, "p", 6>>, <<3, "s", 2>>,
                      <<3, "p", 6>>, <<3, "d", 10>>, <<4, "s", 2>>, <<4, "p", 6>>,
                      <<4, "d", 10>>, <<5, "s", 2>>, <<5, "p", 6>>, <<4, "f", 1>>,
                      <<5, "d", 1>>, <<6, "s", 2>>>>
              [] z = 64 -> <<<<1, "s", 2>>, <<2, "s", 2>>, <<2, "p", 6>>, <<3, "s", 2>>,
                      <<3, "p", 6>>, <<3, "d", 10>>, <<4, "s", 2>>, <<4, "p", 6>>,
                      <<4, "d", 10>>, <<5, "s", 2>>, <<5, "p", 6>>, <<4, "f", 7>>,
                      <<5, "d", 1>>, <<6, "s", 2>>>>
              [] z = 78 -> <<<<1, "s", 2>>, <<2, "s", 2>>, <<2, "p", 6>>, <<3, "s", 2>>,
                      <<3, "p", 6>>, <<3, "d", 10>>, <<4, "s", 2>>, <<4, "p", 6>>,
                      <<4, "d", 10>>, <<5, "s", 2>>, <<5, "p", 6>>, <<4, "f", 14>>,
                      <<5, "d", 9>>, <<6, "s", 1>>>>
              [] z = 79 -> <<<<1, "s", 2>>, <<2, "s", 2>>, <<2, "p", 6>>, <<3, "s", 2>>,
                      <<3, "p", 6>>, <<3, "d", 10>>, <<4, "s", 2>>, <<4, "p", 6>>,
                      <<4, "d", 10>>, <<5, "s", 2>>, <<5, "p", 6>>, <<4, "f", 14>>,
                      <<5, "d", 10>>, <<6, "s", 1>>>>
              [] z = 89 -> <<<<1, "s", 2>>, <<2, "s", 2>>, <<2, "p", 6>>, <<3, "s", 2>>,
                      <<3, "p", 6>>, <<3, "d", 10>>, <<4, "s", 2>>, <<4, "p", 6>>,
                      <<4, "d", 10>>, <<5, "s", 2>>, <<5, "p", 6>>, <<4, "f", 14>>,
                      <<5, "d", 10>>, <<6, "s", 2>>, <<6, "p", 6>>, <<6, "d", 1>>,
                      <<7, "s", 2>>>>
              [] z = 90 -> <<<<1, "s", 2>>, <<2, "s", 2>>, <<2, "p", 6>>, <<3, "s", 2>>,
                      <<3, "p", 6>>, <<3, "d", 10>>, <<4, "s", 2>>, <<4, "p", 6>>,
                      <<4, "d", 10>>, <<5, "s", 2>>, <<5, "p", 6>>, <<4, "f", 14>>,
                      <<5, "d", 10>>, <<6, "s", 2>>, <<6, "p", 6>>, <<6, "d", 2>>,
                      <<7, "s", 2>>>>
              [] z = 91 -> <<<<1, "s", 2>>, <<2, "s", 2>>, <<2, "p", 6>>, <<3, "s", 2>>,
                      <<3, "p", 6>>, <<3, "d", 10>>, <<4, "s", 2>>, <<4, "p", 6>>,
                      <<4, "d", 10>>, <<5, "s", 2>>, <<5, "p", 6>>, <<4, "f", 14>>,
                      <<5, "d", 10>>, <<6, "s", 2>>, <<6, "p", 6>>, <<5, "f", 2>>,
                      <<6, "d", 1>>, <<7, "s", 2>>>>
              [] z = 92 -> <<<<1, "s", 2>>, <<2, "s", 2>>, <<2, "p", 6>>, <<3, "s", 2>>,
                      <<3, "p", 6>>, <<3, "d", 10>>, <<4, "s", 2>>, <<4, "p", 6>>,
                      <<4, "d", 10>>, <<5, "s", 2>>, <<5, "p", 6>>, <<4, "f", 14>>,
                      <<5, "d", 10>>, <<6, "s", 2>>, <<6, "p", 6>>, <<5, "f", 3>>,
                      <<6, "d", 1>>, <<7, "s", 2>>>>
              [] z = 93 -> <<<<1, "s", 2>>, <<2, "s", 2>>, <<2, "p", 6>>, <<3, "s", 2>>,
                      <<3, "p", 6>>, <<3, "d", 10>>, <<4, "s", 2>>, <<4, "p", 6>>,
                      <<4, "d", 10>>, <<5, "s", 2>>, <<5, "p", 6>>, <<4, "f", 14>>,
                      <<5, "d", 10>>, <<6, "s", 2>>, <<6, "p", 6>>, <<5, "f", 4>>,
                      <<6, "d", 1>>, <<7, "s", 2>>>>
              [] z = 96 -> <<<<1, "s", 2>>, <<2, "s", 2>>, <<2, "p", 6>>, <<3, "s", 2>>,
                      <<3, "p", 6>>, <<3, "d", 10>>, <<4, "s", 2>>, <<4, "p", 6>>,
                      <<4, "d", 10>>, <<5, "s", 2>>, <<5, "p", 6>>, <<4, "f", 14>>,
                      <<5, "d", 10>>, <<6, "s", 2>>, <<6, "p", 6>>, <<5, "f", 7>>,
                      <<6, "d", 1>>, <<7, "s", 2>>>>
              [] z = 103 -> <<<<1, "s", 2>>, <<2, "s", 2>>, <<2, "p", 6>>, <<3, "s", 2>>,
                      <<3, "p", 6>>, <<3, "d", 10>>, <<4, "s", 2>>, <<4, "p", 6>>,
                      <<4, "d", 10>>, <<5, "s", 2>>, <<5, "p", 6>>, <<4, "f", 14>>,
                      <<5, "d", 10>>, <<6, "s", 2>>, <<6, "p", 6>>, <<5, "f", 14>>,
                      <<6, "d", 1>>, <<7, "s", 2>>>> ]

\* Variant: the exception table is never consulted.
_apply_exception_never(z, config) == config

\* EXCEPTION_CONFIGS.get(Z, config)
_apply_exception(z, config) ==
    IF z \in DOMAIN EXCEPTION_CONFIGS THEN EXCEPTION_CONFIGS[z] ELSE config

\* Sort key of _format_config: (n, l_order.get(orbital, 5))
FormatKey(x) == <<x[1], Get(l_order, x[2], 5)>>

\* The items of the string, in printing order.
_format_config(config) ==
    [core |-> "",
     items |-> SortByKey(config, [i \in DOMAIN config |-> FormatKey(config[i])])]

\* Number of electrons in config[1..i]
RECURSIVE ElectronCount(_, _)
ElectronCount(config, i) ==
    IF i = 0 THEN 0 ELSE ElectronCount(config, i - 1) + config[i][3]

\* Variant: the orbital that completes the core is listed again.
_format_with_noble_gas_core_inclusive(z, config) ==
    LET below == {ng \in DOMAIN NOBLE_GASES : ng < z}
        core_Z == IF below = {} THEN 0
                  ELSE CHOOSE ng \in below : \A other \in below : other <= ng
    IN  IF core_Z = 0 THEN _format_config(config)
        ELSE LET core_electrons == core_Z
                 valence_config ==
                     SelectSeq([i \in DOMAIN config |-> <<i, config[i]>>],
                               LAMBDA e : ElectronCount(config, e[1]) >= core_electrons)
                 valence_str ==
                     _format_config([i \in DOMAIN valence_config |->
                                         valence_config[i][2]])
             IN  [core |-> NOBLE_GASES[core_Z], items |-> valence_str.items]

_format_with_noble_gas_core(z, config) ==
    LET below == {ng \in DOMAIN NOBLE_GASES : ng < z}
        core_Z == IF below = {} THEN 0
                  ELSE CHOOSE ng \in below : \A other \in below : other <= ng
    IN  IF core_Z = 0 THEN _format_config(config)
        ELSE LET core_electrons == core_Z
                 valence_config ==
                     SelectSeq([i \in DOMAIN config |-> <<i, config[i]>>],
                               LAMBDA e : ElectronCount(config, e[1]) > core_electrons)
                 valence_str ==
                     _format_config([i \in DOMAIN valence_config |->
                                         valence_config[i][2]])
             IN  [core |-> NOBLE_GASES[core_Z], items |-> valence_str.items]

\* Variant: the range check admits every Z up to 200.
madelung_rule_to_200(z, use_noble_gas_core) ==
    IF z < 1 \/ z > 200 THEN Raise("ValueError")
    ELSE LET filled == Fill(_aufbau_order, 1, z, <<>>)
             config == IF z \in MADELUNG_EXCEPTIONS
                       THEN _apply_exception(z, filled) ELSE filled
         IN  IF use_noble_gas_core
             THEN Return(_format_with_noble_gas_core(z, config))
             ELSE Return(_format_config(config))

madelung_rule(z, use_noble_gas_core) ==
    IF z < 1 \/ z > 173 THEN Raise("ValueError")
    ELSE LET filled == Fill(_aufbau_order, 1, z, <<>>)
             config == IF z \in MADELUNG_EXCEPTIONS
                       THEN _apply_exception(z, filled) ELSE filled
         IN  IF use_noble_gas_core
             THEN Return(_format_with_noble_gas_core(z, config))
             ELSE Return(_format_config(config))

\* re.findall(r'(\d+)([spdfg])(\d+)', ...) on the text after the bracket:
\* the items of the string, as (n, orbital, count).
Matches(config_string) == config_string.items

count_valence(config_string) ==
    LET matches == Matches(config_string)
    IN  IF matches = <<>> THEN 0
        ELSE LET ns == {matches[i][1] : i \in DOMAIN matches}
                 max_n == CHOOSE n \in ns : \A m \in ns : m <= n
                 inMax == {i \in DOMAIN matches : matches[i][1] = max_n}
                 RECURSIVE Sum(_)
                 Sum(S) == IF S = {} THEN 0
                           ELSE LET i == CHOOSE i \in S : TRUE
                                IN  matches[i][3] + Sum(S \ {i})
                 valence == Sum(inMax)
                 has_s_electrons == \E i \in inMax : matches[i][2] = "s"
                 has_sp_in_max_n == \E i \in inMax : matches[i][2] \in {"s", "p"}
             IN  IF ~has_s_electrons /\ max_n > 0 /\ ~has_sp_in_max_n THEN 0
                 ELSE valence

orbital_type(config_string) ==
    LET matches == Matches(config_string)
    IN  IF matches = <<>> THEN "s" ELSE matches[Len(matches)][2]

(***************************************************************************)
(* src/src/theory/confidence.py : ConfidenceScorer                         *)
(*                                                                         *)
(* self.profile is a dict with the key "z_ranges" (modelled as the         *)
(* sequence of its range configs, in dict order) and the optional key      *)
(* "property_modifiers".                                                   *)
(***************************************************************************)
\* Index of the first range config holding z, 0 when there is none (None)
_find_z_range(self, z) ==
    LET hits == {i \in DOMAIN self.z_ranges :
                    self.z_ranges[i].range[1] <= z /\ z <= self.z_ranges[i].range[2]}
    IN  IF hits = {} THEN 0 ELSE CHOOSE i \in hits : \A j \in hits : i <= j

\* The methods that return range_config["confidence"][property] unmodified:
\* atomic_radius_confidence, electronegativity_confidence,
\* ionization_energy_confidence, oxidation_states_confidence
base_confidence(self, z, property) ==
    LET range_config == _find_z_range(self, z)
    IN  IF range_config = 0 THEN 0
        ELSE self.z_ranges[range_config].confidence[property]

\* models_agree is "None", "True" or "False"
electron_config_confidence(self, z, models_agree) ==
    LET range_config == _find_z_range(self, z)
    IN  IF range_config = 0 THEN 0
        ELSE LET base == self.z_ranges[range_config].confidence.electron_configuration
             IN  IF models_agree # "None" /\ "property_modifiers" \in DOMAIN self
                 THEN LET modifiers == Get(self.property_modifiers,
                                           "electron_configuration", EmptyDict)
                      IN  IF models_agree = "True"
                          THEN Min2(100, base + Get(modifiers, "model_agreement_bonus", 0))
                          ELSE LET penalty ==
                                       Get(modifiers, "model_disagreement_penalty", 0)
                               IN  IF base + penalty > 0 THEN base + penalty ELSE 0
                 ELSE base

\* N is an Optional[int]
half_life_confidence(self, z, N) ==
    LET range_config == _find_z_range(self, z)
    IN  IF range_config = 0 THEN 0
        ELSE LET base == self.z_ranges[range_config].confidence.half_life
             IN  IF N # None /\ "property_modifiers" \in DOMAIN self
                 THEN LET modifiers == Get(self.property_modifiers, "half_life", EmptyDict)
                      IN  IF 179 <= N[1] /\ N[1] <= 189
                          THEN Min2(100, base + Get(modifiers, "island_of_stability_bonus", 0))
                          ELSE IF Abs(N[1] - 184) > 20
                          THEN LET penalty ==
                                       Get(modifiers, "far_from_magic_numbers_penalty", 0)
                               IN  IF base + penalty > 0 THEN base + penalty ELSE 0
                          ELSE base
                 ELSE base

get_all_confidences(self, z, N) ==
    [electron_configuration |-> electron_config_confidence(self, z, "None"),
     atomic_radius          |-> base_confidence(self, z, "atomic_radius"),
     electronegativity      |-> base_confidence(self, z, "electronegativity"),
     ionization_energy      |-> base_confidence(self, z, "ionization_energy"),
     oxidation_states       |-> base_confidence(self, z, "oxidation_states"),
     half_life              |-> half_life_confidence(self, z, N)]

(***************************************************************************)
(* src/src/theory/generator.py : ElementGenerator                          *)
(*                                                                         *)
(* The generator holds the scorer's profile and the element-names database *)
(* (element_names, the set of atomic numbers it has an entry for).  The    *)
(* mendeleev package is its environment: whether the import succeeded and  *)
(* what element(Z).en_pauling answers.                                     *)
(***************************************************************************)
\* IUPAC_DIGIT_NAMES, indexed by digit + 1
IUPAC_DIGIT_NAMES ==
    <<"nil", "un", "bi", "tri", "quad", "pent", "hex", "sept", "oct", "enn">>

\* str(Z) for Z >= 0, as a sequence of digits
RECURSIVE Digits(_)
Digits(z) == IF z < 10 THEN <<z>> ELSE Append(Digits(z \div 10), z % 10)

\* The name is the capitalized concatenation of the parts and "ium"; the
\* symbol takes the first letter of each part, the first one in upper case.
_iupac_systematic_name(z) ==
    LET digits == Digits(z)
        parts == [i \in DOMAIN digits |-> IUPAC_DIGIT_NAMES[digits[i] + 1]]
    IN  [symbol |-> [source |-> "first letters", parts |-> parts],
         name   |-> [source |-> "capitalize", parts |-> Append(parts, "ium")]]

_get_standard_name(names, z) ==
    IF z \in names
    THEN [symbol |-> [source |-> "database", parts |-> <<>>],
          name   |-> [source |-> "database", parts |-> <<>>]]
    ELSE _iupac_systematic_name(z)

_extrapolate_electronegativity(z) ==
    LET config == madelung_rule(z, TRUE)
    IN  IF config.raised # "none" THEN config
        ELSE LET valence == count_valence(config.value)
             IN  IF valence = 8 \/ (z = 2 /\ valence = 2) THEN Return(None)
                 ELSE IF valence = 1 THEN Return(Some(80))
                 ELSE IF valence = 2 THEN Return(Some(120))
                 ELSE IF valence = 7 THEN Return(Some(300))
                 ELSE IF 3 <= valence /\ valence <= 6
                 THEN Return(Some(150 + (valence - 3) * 25))
                 ELSE Return(Some(200))

_compute_electronegativity(env, z) ==
    IF z <= 118 /\ env.MENDELEEV_AVAILABLE /\ env.en_pauling.raised = "none"
    THEN Return(env.en_pauling.value)
    ELSE _extrapolate_electronegativity(z)

\* Variant: every threshold is exclusive.
_classify_element_exclusive(z) ==
    IF z < 118 THEN "observed"
    ELSE IF z < 120 THEN "synthesis_planned"
    ELSE IF z < 137 THEN "predicted"
    ELSE IF z < 172 THEN "supercritical"
    ELSE "impossible"

_classify_element(z) ==
    IF z <= 118 THEN "observed"
    ELSE IF z <= 120 THEN "synthesis_planned"
    ELSE IF z <= 137 THEN "predicted"
    ELSE IF z <= 172 THEN "supercritical"
    ELSE "impossible"

generate(self, names, env, z) ==
    IF z < 1 \/ z > 200 THEN Raise("ValueError")
    ELSE LET config == madelung_rule(z, TRUE)
         IN  IF config.raised # "none" THEN config
             ELSE LET valence == count_valence(config.value)
                      block == orbital_type(config.value)
                      electronegativity == _compute_electronegativity(env, z)
                      naming == IF z <= 118 THEN _get_standard_name(names, z)
                                ELSE _iupac_systematic_name(z)
                      status == _classify_element(z)
                      confidence == get_all_confidences(self, z, None)
                  IN  IF electronegativity.raised # "none" THEN electronegativity
                      ELSE Return([atomic_number |-> z,
                                   symbol |-> naming.symbol,
                                   name |-> naming.name,
                                   electron_configuration |-> config.value,
                                   valence_electrons |-> valence,
                                   block |-> block,
                                   electronegativity |-> electronegativity.value,
                                   status |-> status,
                                   confidence |-> confidence])

(***************************************************************************)
(* src/src/crystallization/detector.py : classification                    *)
(*                                                                         *)
(* relative_violation, violation_threshold and conjugation are in          *)
(* thousandths.                                                            *)
(***************************************************************************)
\* Variant: only cycles larger than 5 count as resonant.
has_resonance_strict(f) ==
    f.conjugation > 500 \/ (f.num_cycles > 0 /\ f.max_cycle_size > 5)

has_resonance(f) ==
    f.conjugation > 500 \/ (f.num_cycles > 0 /\ f.max_cycle_size >= 5)

is_symmetric(f) == f.symmetry_order > 1

\* Variant: a moderate violation is never enough to cache.
classify_violation_large_only(self, rel, f) ==
    LET abs_relative == Abs(rel)
    IN  IF abs_relative > self * 2 THEN "must_cache"
        ELSE IF abs_relative < self /\ ~has_resonance(f) /\ ~is_symmetric(f)
        THEN "decomposes_cleanly"
        ELSE "uncertain"

\* self is the detector's violation_threshold; the `violation` argument of
\* the method is not read by it.
classify_violation(self, rel, f) ==
    LET abs_relative == Abs(rel)
    IN  IF abs_relative > self * 2 THEN "must_cache"
        ELSE IF abs_relative < self /\ ~has_resonance(f) /\ ~is_symmetric(f)
        THEN "decomposes_cleanly"
        ELSE IF abs_relative > self /\ (has_resonance(f) \/ is_symmetric(f))
        THEN "must_cache"
        ELSE "uncertain"

(***************************************************************************)
(* src/src/crystallization/detector.py : measurement                       *)
(*                                                                         *)
(* A structure is a record: has_atoms / has_bonds say whether it exposes   *)
(* the attributes, atoms is the list of atoms, bonds the list of           *)
(* (i, j, order) tuples with 0-based atom indices and the bond order in    *)
(* tenths (1.5 -> 15).  Energies are whole numbers.  The quotients the     *)
(* source computes in floating point are kept in thousandths, truncated.   *)
(***************************************************************************)
\* (num_cycles, max_cycle_size)
_detect_cycles(structure) ==
    LET num_nodes == Len(structure.atoms)
        num_edges == Len(structure.bonds)
    IN  IF num_edges >= num_nodes
        THEN <<num_edges - num_nodes + 1, Min2(num_nodes, 6)>>
        ELSE <<0, 0>>

\* degrees[i] for the 0-based atom index i
Degrees(structure) ==
    [i \in 0..(Len(structure.atoms) - 1) |->
        Cardinality({k \in DOMAIN structure.bonds : structure.bonds[k][1] = i})
        + Cardinality({k \in DOMAIN structure.bonds : structure.bonds[k][2] = i})]

_estimate_symmetry(structure) ==
    LET num_nodes == Len(structure.atoms)
        num_edges == Len(structure.bonds)
        degrees == Degrees(structure)
    IN  IF num_nodes > 0 /\ num_edges > 0
           /\ Cardinality({degrees[i] : i \in DOMAIN degrees}) = 1
        THEN IF num_nodes = 6 /\ degrees[0] = 2 THEN 6
             ELSE IF num_nodes = 3 /\ degrees[0] = 2 THEN 3
             ELSE num_nodes
        ELSE 1

\* Variant: the score is the plain ratio of double and aromatic bonds.
_estimate_conjugation_ratio_only(structure) ==
    IF ~structure.has_bonds THEN 0
    ELSE LET bonds == structure.bonds
             total_bonds == Len(bonds)
             double_bonds == Cardinality({k \in DOMAIN bonds : bonds[k][3] = 20})
             aromatic_bonds ==
                 Cardinality({k \in DOMAIN bonds :
                                 bonds[k][3] # 20 /\ 10 < bonds[k][3] /\ bonds[k][3] < 20})
         IN  IF total_bonds = 0 THEN 0
             ELSE (1000 * (double_bonds + aromatic_bonds)) \div total_bonds

_estimate_conjugation(structure) ==
    IF ~structure.has_bonds THEN 0
    ELSE LET bonds == structure.bonds
             total_bonds == Len(bonds)
             double_bonds == Cardinality({k \in DOMAIN bonds : bonds[k][3] = 20})
             aromatic_bonds ==
                 Cardinality({k \in DOMAIN bonds :
                                 bonds[k][3] # 20 /\ 10 < bonds[k][3] /\ bonds[k][3] < 20})
             conjugated_bonds == double_bonds + aromatic_bonds
             num_cycles == _detect_cycles(structure)[1]
         IN  IF total_bonds = 0 THEN 0
             ELSE IF num_cycles > 0 /\ aromatic_bonds > 0
             THEN Min2(1000, 800 + (conjugated_bonds * 200) \div total_bonds)
             ELSE IF num_cycles > 0 /\ conjugated_bonds * 10 > 3 * total_bonds
             THEN Min2(1000, (1000 * conjugated_bonds) \div total_bonds + 300)
             ELSE (1000 * conjugated_bonds) \div total_bonds

_compute_clustering(structure) ==
    IF ~structure.has_bonds THEN 0
    ELSE LET num_nodes == Len(structure.atoms)
             bonds == structure.bonds
             adj == [i \in 0..(num_nodes - 1) |->
                        {bonds[k][2] : k \in {m \in DOMAIN bonds : bonds[m][1] = i}}
                        \cup
                        {bonds[k][1] : k \in {m \in DOMAIN bonds : bonds[m][2] = i}}]
             triangles ==
                 Cardinality({t \in (DOMAIN adj) \X (DOMAIN adj) \X (DOMAIN adj) :
                                 /\ t[2] \in adj[t[1]] /\ t[2] > t[1]
                                 /\ t[3] \in adj[t[1]] \cap adj[t[2]]})
             max_triangles6 == num_nodes * (num_nodes - 1) * (num_nodes - 2)
         IN  IF num_nodes < 3 THEN 0
             ELSE (1000 * 6 * triangles) \div max_triangles6

extract_structural_features(structure) ==
    IF structure.has_atoms /\ structure.has_bonds
    THEN LET num_nodes == Len(structure.atoms)
             num_edges == Len(structure.bonds)
             cycles == _detect_cycles(structure)
             num_cycles == cycles[1]
             max_cycle_size == cycles[2]
         IN  [num_nodes |-> num_nodes,
              num_edges |-> num_edges,
              num_cycles |-> num_cycles,
              max_cycle_size |-> max_cycle_size,
              symmetry_order |-> _estimate_symmetry(structure),
              planarity |-> (num_cycles = 0) \/ (max_cycle_size <= 6),
              conjugation |-> _estimate_conjugation(structure),
              density |-> IF num_nodes > 1
                          THEN (1000 * 2 * num_edges) \div (num_nodes * (num_nodes - 1))
                          ELSE 1000 * num_edges,
              clustering |-> _compute_clustering(structure)]
    ELSE [num_nodes |-> 0, num_edges |-> 0, num_cycles |-> 0, max_cycle_size |-> 0,
          symmetry_order |-> 1, planarity |-> TRUE, conjugation |-> 0,
          density |-> 0, clustering |-> 0]

\* The reasoning string, by the pieces it is joined from: the magnitude and
\* direction words, the percentage, the structural signals in order, and
\* the classification after the arrow.
_generate_reasoning(violation, rel, classification, f) ==
    LET abs_rel == Abs(rel)
        direction == IF violation < 0 THEN "stabilization" ELSE "destabilization"
        magnitude == IF abs_rel > 100 THEN "large"
                     ELSE IF abs_rel > 50 THEN "moderate" ELSE "small"
        resonance == IF has_resonance(f)
                     THEN <<[text |-> "resonance/delocalization detected", value |-> 0]>>
                     ELSE <<>>
        symmetry  == IF is_symmetric(f)
                     THEN <<[text |-> "symmetry order", value |-> f.symmetry_order]>>
                     ELSE <<>>
        cycles    == IF f.num_cycles > 0
                     THEN <<[text |-> "cycle(s)", value |-> f.num_cycles]>>
                     ELSE <<>>
    IN  [magnitude |-> magnitude, direction |-> direction, abs_rel |-> abs_rel,
         signals |-> resonance \o symmetry \o cycles,
         classification |-> classification]

\* Variant: the violation is taken as naive - actual.
measure_violation_naive_minus_actual(naive_value, actual_value) ==
    naive_value - actual_value

\* violation = actual_value - naive_value
measure_violation(naive_value, actual_value) ==
    actual_value - naive_value

\* self is the detector's violation_threshold; naive_value is what naive_fn
\* returned for the structure.
measure_additivity_violation(self, structure, naive_value, actual_value, conf) ==
    LET violation == measure_violation(naive_value, actual_value)
        rel == IF actual_value # 0
               THEN (1000 * violation) \div Abs(actual_value)
               ELSE 0
        f == extract_structural_features(structure)
        classification == classify_violation(self, rel, f)
    IN  [naive_value |-> naive_value,
         actual_value |-> actual_value,
         violation |-> violation,
         relative_violation |-> rel,
         confidence |-> conf,
         classification |-> classification,
         structural_features |-> f,
         reasoning |-> _generate_reasoning(violation, rel, classification, f)]


(***************************************************************************)
(* Arguments of the BondingRules calls.  Element is a dataclass, so the    *)
(* functions accept any combination of field values.                       *)
(***************************************************************************)
ElementZ == {1, 2, 6, 7, 8, 11}

ElementValence == {0, 1, 2, 4, 5, 6, 8}

ElementEN == {None, Some(80), Some(250), Some(300)}

ElementConfidence ==
    { [electron_configuration |-> 100, electronegativity |-> 100],
      [electron_configuration |-> 85,  electronegativity |-> 100],
      [electron_configuration |-> 90] }

Elements ==
    [atomic_number : ElementZ, valence_electrons : ElementValence,
     electronegativity : ElementEN, confidence : ElementConfidence]

\* H, C, N, O, Na, Cl as ElementGenerator produces them with the Pauling
\* electronegativities of the reference dataset.
Elem(z, v, en) ==
    [atomic_number |-> z, valence_electrons |-> v, electronegativity |-> Some(en),
     confidence |-> [electron_configuration |-> 100, electronegativity |-> 100]]

ReferenceElements ==
    { Elem(1, 1, 220), Elem(6, 4, 255), Elem(7, 5, 304), Elem(8, 6, 344),
      Elem(11, 1, 93), Elem(17, 7, 316) }

\* Largest bond order passed to compute_stability_score
MaxBondOrder == 4

BondTypes == {"nonpolar_covalent", "polar_covalent", "ionic"}

(***************************************************************************)
(* Values of the variables a specification does not use                    *)
(***************************************************************************)
NoElement ==
    [atomic_number |-> 0, valence_electrons |-> 0, electronegativity |-> None,
     confidence |-> EmptyDict]

NoFeatures ==
    [num_nodes |-> 0, num_edges |-> 0, num_cycles |-> 0, max_cycle_size |-> 0,
     symmetry_order |-> 1, planarity |-> TRUE, conjugation |-> 0,
     density |-> 0, clustering |-> 0]

NoProfile == [z_ranges |-> <<>>]

NoMendeleev == [MENDELEEV_AVAILABLE |-> FALSE, en_pauling |-> Raise("ImportError")]

BondingIdle ==
    /\ elem_a = NoElement /\ elem_b = NoElement
    /\ bond_order = 0 /\ bond_type = "none"

GeneratorIdle ==
    Z = 0 /\ mendeleev = NoMendeleev /\ profile = NoProfile /\ element_names = {}

DetectorIdle ==
    violation_threshold = 0 /\ relative_violation = 0 /\ features = NoFeatures

\* A structure that exposes neither atoms nor bonds
NoStructure == [has_atoms |-> FALSE, has_bonds |-> FALSE]

MeasureIdle ==
    /\ molecule = NoStructure /\ naive = 0 /\ actual = 0
    /\ measure_confidence = 100

TheoryIdle ==
    /\ compact = TRUE /\ configuration = None
    /\ agree = "None" /\ neutrons = None
    /\ callers = <<>>

CallsIdle == stack = <<>>

bondingArgs == <<elem_a, elem_b, bond_order, bond_type>>

generatorArgs == <<Z, mendeleev, profile, element_names>>

detectorArgs == <<violation_threshold, relative_violation, features>>

measureArgs == <<molecule, naive, actual, measure_confidence>>

theoryArgs == <<compact, configuration, agree, neutrons, callers>>

inputs ==
    <<bondingArgs, generatorArgs, detectorArgs, measureArgs, theoryArgs, stack>>

(***************************************************************************)
(* BondingRules: the calls                                                 *)
(***************************************************************************)
CanBond ==
    /\ op' = "can_bond"
    /\ ret' = can_bond(elem_a, elem_b)
    /\ UNCHANGED inputs

PredictAllBondOrders ==
    /\ op' = "predict_all_bond_orders"
    /\ ret' = predict_all_bond_orders(elem_a, elem_b)
    /\ UNCHANGED inputs

PredictBondOrder ==
    /\ op' = "predict_bond_order"
    /\ ret' = predict_bond_order(elem_a, elem_b)
    /\ UNCHANGED inputs

ClassifyBondType ==
    /\ op' = "classify_bond_type"
    /\ ret' = classify_bond_type(elem_a, elem_b)
    /\ UNCHANGED inputs

ComputeStabilityScore ==
    /\ op' = "compute_stability_score"
    /\ ret' = Return(compute_stability_score(elem_a, elem_b, bond_order, bond_type))
    /\ UNCHANGED inputs

InitBonding ==
    /\ op = "init" /\ ret = NoCall
    /\ elem_a \in Elements /\ elem_b \in Elements
    /\ bond_order = 0 /\ bond_type = "none"
    /\ GeneratorIdle /\ DetectorIdle
    /\ MeasureIdle /\ TheoryIdle /\ CallsIdle

NextBonding ==
    \/ CanBond
    \/ PredictAllBondOrders
    \/ PredictBondOrder
    \/ ClassifyBondType

SpecBonding == InitBonding /\ [][NextBonding]_vars

InitStability ==
    /\ op = "init" /\ ret = NoCall
    /\ elem_a \in ReferenceElements /\ elem_b \in ReferenceElements
    /\ bond_order \in 0..MaxBondOrder /\ bond_type \in BondTypes
    /\ GeneratorIdle /\ DetectorIdle
    /\ MeasureIdle /\ TheoryIdle /\ CallsIdle

NextStability ==
    \/ ComputeStabilityScore
    \/ PredictAllBondOrders

SpecStability == InitStability /\ [][NextStability]_vars

(***************************************************************************)
(* ElementGenerator: arguments, environment and the call                   *)
(***************************************************************************)
\* generate is called with every Z from ZMargin below 1 to ZMargin above 200.
ZMargin == 3

\* A profile in the shape of config/confidence_profiles.json, with the
\* scores the docstrings of confidence.py quote for Z = 120.
DefaultProfile ==
    [z_ranges |-> <<
        [range |-> <<1, 118>>,
         confidence |-> [electron_configuration |-> 100, atomic_radius |-> 100,
                         electronegativity |-> 100, ionization_energy |-> 100,
                         oxidation_states |-> 100, half_life |-> 100]],
        [range |-> <<119, 126>>,
         confidence |-> [electron_configuration |-> 85, atomic_radius |-> 60,
                         electronegativity |-> 55, ionization_energy |-> 60,
                         oxidation_states |-> 70, half_life |-> 50]],
        [range |-> <<127, 137>>,
         confidence |-> [electron_configuration |-> 60, atomic_radius |-> 40,
                         electronegativity |-> 35, ionization_energy |-> 40,
                         oxidation_states |-> 45, half_life |-> 30]],
        [range |-> <<138, 172>>,
         confidence |-> [electron_configuration |-> 30, atomic_radius |-> 20,
                         electronegativity |-> 15, ionization_energy |-> 20,
                         oxidation_states |-> 20, half_life |-> 10]] >>,
     property_modifiers |->
        [electron_configuration |->
            [model_agreement_bonus |-> 5, model_disagreement_penalty |-> -10],
         half_life |->
            [island_of_stability_bonus |-> 10, far_from_magic_numbers_penalty |-> -10]]]

\* A profile without modifiers whose single range covers every Z.
FlatProfile ==
    [z_ranges |-> <<
        [range |-> <<1, 200>>,
         confidence |-> [electron_configuration |-> 90, atomic_radius |-> 90,
                         electronegativity |-> 90, ionization_energy |-> 90,
                         oxidation_states |-> 90, half_life |-> 90]] >>]

Profiles == {DefaultProfile, FlatProfile}

\* The mendeleev package: import failed / lookup raises / en_pauling is None /
\* en_pauling is a number.
MendeleevAnswers ==
    { NoMendeleev,
      [MENDELEEV_AVAILABLE |-> TRUE, en_pauling |-> Raise("Exception")],
      [MENDELEEV_AVAILABLE |-> TRUE, en_pauling |-> Return(None)],
      [MENDELEEV_AVAILABLE |-> TRUE, en_pauling |-> Return(Some(255))] }

Generate ==
    /\ op' = "generate"
    /\ ret' = generate(profile, element_names, mendeleev, Z)
    /\ UNCHANGED inputs

InitGenerator ==
    /\ op = "init" /\ ret = NoCall
    /\ Z \in (1 - ZMargin)..(200 + ZMargin)
    /\ mendeleev \in MendeleevAnswers
    /\ profile \in Profiles
    /\ element_names \in {{}, 1..118}
    /\ BondingIdle /\ DetectorIdle
    /\ MeasureIdle /\ TheoryIdle /\ CallsIdle

NextGenerator == Generate

SpecGenerator == InitGenerator /\ [][NextGenerator]_vars

(***************************************************************************)
(* CrystallizationDetector: arguments and the call                         *)
(***************************************************************************)
Thresholds == {0, 50, 80}

RelativeViolations ==
    {-210, -161, -160, -101, -100, -99, -81, -80, -79, -51, -50, -49, -1, 0,
     1, 49, 50, 51, 79, 80, 81, 99, 100, 101, 159, 160, 161, 210}

\* A StructuralFeatures object; classify_violation reads conjugation,
\* num_cycles, max_cycle_size and symmetry_order.
FeatureSets ==
    { [NoFeatures EXCEPT !.conjugation = c, !.num_cycles = k,
                         !.max_cycle_size = m, !.symmetry_order = o] :
        c \in {0, 500, 501, 1000}, k \in {0, 1}, m \in {0, 4, 5, 6}, o \in {1, 6} }

ClassifyViolation ==
    /\ op' = "classify_violation"
    /\ ret' = Return(classify_violation(violation_threshold, relative_violation,
                                        features))
    /\ UNCHANGED inputs

InitDetector ==
    /\ op = "init" /\ ret = NoCall
    /\ violation_threshold \in Thresholds
    /\ relative_violation \in RelativeViolations
    /\ features \in FeatureSets
    /\ BondingIdle /\ GeneratorIdle
    /\ MeasureIdle /\ TheoryIdle /\ CallsIdle

NextDetector == ClassifyViolation

SpecDetector == InitDetector /\ [][NextDetector]_vars

(***************************************************************************)
(* CrystallizationDetector: the measurement calls                          *)
(***************************************************************************)
\* A ring of n carbon atoms; orders[k] is the order of the bond from atom
\* k-1 to atom k mod n.
Ring(n, orders) ==
    [has_atoms |-> TRUE, has_bonds |-> TRUE,
     atoms |-> [k \in 1..n |-> "C"],
     bonds |-> [k \in 1..n |-> <<k - 1, k % n, orders[k]>>]]

\* An open chain of Len(orders) + 1 carbon atoms
Chain(orders) ==
    [has_atoms |-> TRUE, has_bonds |-> TRUE,
     atoms |-> [k \in 1..(Len(orders) + 1) |-> "C"],
     bonds |-> [k \in DOMAIN orders |-> <<k - 1, k, orders[k]>>]]

\* Four atoms, every pair bonded
Tetrahedron ==
    [has_atoms |-> TRUE, has_bonds |-> TRUE,
     atoms |-> <<"P", "P", "P", "P">>,
     bonds |-> << <<0, 1, 10>>, <<0, 2, 10>>, <<0, 3, 10>>,
                  <<1, 2, 10>>, <<1, 3, 10>>, <<2, 3, 10>> >>]

Structures ==
    { Ring(6, <<10, 20, 10, 20, 10, 20>>),   \* benzene, localized bonds
      Ring(6, <<20, 10, 20, 10, 20, 10>>),
      Ring(6, <<15, 15, 15, 15, 15, 15>>),   \* benzene, aromatic bonds
      Ring(6, <<10, 10, 10, 10, 10, 10>>),   \* cyclohexane ring
      Ring(4, <<20, 10, 20, 10>>),           \* cyclobutadiene
      Ring(3, <<10, 10, 10>>),               \* cyclopropane ring
      Chain(<<10>>),                         \* ethane skeleton
      Chain(<<20, 10, 20>>),                 \* butadiene
      Chain(<<>>),                           \* a single atom
      Tetrahedron,
      [has_atoms |-> TRUE, has_bonds |-> TRUE, atoms |-> <<>>, bonds |-> <<>>],
      NoStructure }

\* actual_value, and the amounts by which naive_fn's answer differs from it;
\* every quotient violation / |actual_value| is a whole number of thousandths.
ActualValues == {-2000, -1000, 0, 1000}

NaiveOffsets ==
    {-400, -200, -102, -100, -98, -52, -50, -48, -2, 0,
     2, 48, 50, 52, 98, 100, 102, 200, 400}

MeasureAdditivityViolation ==
    /\ op' = "measure_additivity_violation"
    /\ ret' = Return(measure_additivity_violation(violation_threshold, molecule,
                                                  naive, actual, measure_confidence))
    /\ UNCHANGED inputs

ExtractStructuralFeatures ==
    /\ op' = "extract_structural_features"
    /\ ret' = Return(extract_structural_features(molecule))
    /\ UNCHANGED inputs

InitMeasure ==
    /\ op = "init" /\ ret = NoCall
    /\ violation_threshold \in {50, 80}
    /\ molecule \in Structures
    /\ actual \in ActualValues
    /\ \E d \in NaiveOffsets : naive = actual + d
    /\ measure_confidence \in {95, 100}
    /\ relative_violation = 0 /\ features = NoFeatures
    /\ BondingIdle /\ GeneratorIdle /\ TheoryIdle /\ CallsIdle

NextMeasure ==
    \/ MeasureAdditivityViolation
    \/ ExtractStructuralFeatures

SpecMeasure == InitMeasure /\ [][NextMeasure]_vars

(***************************************************************************)
(* Orbital filling and status classification: the calls                    *)
(*                                                                         *)
(* The caller keeps the string madelung_rule returned and passes it to     *)
(* count_valence and orbital_type, as ElementGenerator.generate and the    *)
(* validation suite do.                                                    *)
(***************************************************************************)
MadelungRule ==
    /\ op' = "madelung_rule"
    /\ ret' = madelung_rule(Z, compact)
    /\ configuration' = IF ret'.raised = "none" THEN Some(ret'.value)
                        ELSE configuration
    /\ UNCHANGED <<bondingArgs, generatorArgs, detectorArgs, measureArgs,
                   compact, agree, neutrons, stack, callers>>

CountValence ==
    /\ configuration # None
    /\ op' = "count_valence"
    /\ ret' = Return(count_valence(configuration[1]))
    /\ UNCHANGED inputs

OrbitalType ==
    /\ configuration # None
    /\ op' = "orbital_type"
    /\ ret' = Return(orbital_type(configuration[1]))
    /\ UNCHANGED inputs

ClassifyElement ==
    /\ op' = "_classify_element"
    /\ ret' = Return(_classify_element(Z))
    /\ UNCHANGED inputs

InitTheory ==
    /\ op = "init" /\ ret = NoCall
    /\ Z \in (1 - ZMargin)..(200 + ZMargin)
    /\ compact \in BOOLEAN
    /\ configuration = None
    /\ agree = "None" /\ neutrons = None /\ callers = <<>>
    /\ mendeleev = NoMendeleev /\ profile = NoProfile /\ element_names = {}
    /\ BondingIdle /\ DetectorIdle /\ MeasureIdle /\ CallsIdle

NextTheory ==
    \/ MadelungRule
    \/ CountValence
    \/ OrbitalType
    \/ ClassifyElement

SpecTheory == InitTheory /\ [][NextTheory]_vars

\* REFERENCE_ELEMENTS of the validation suite: the compact configuration,
\* the valence count and the block listed for each atomic number.
REFERENCE_ELEMENTS ==
    1 :> [config |-> [core |-> "", items |-> <<<<1, "s", 1>>>>],
          valence |-> 1, block |-> "s"] @@
    2 :> [config |-> [core |-> "", items |-> <<<<1, "s", 2>>>>],
          valence |-> 2, block |-> "s"] @@
    3 :> [config |-> [core |-> "He", items |-> <<<<2, "s", 1>>>>],
          valence |-> 1, block |-> "s"] @@
    6 :> [config |-> [core |-> "He", items |-> <<<<2, "s", 2>>, <<2, "p", 2>>>>],
          valence |-> 4, block |-> "p"] @@
    8 :> [config |-> [core |-> "He", items |-> <<<<2, "s", 2>>, <<2, "p", 4>>>>],
          valence |-> 6, block |-> "p"] @@
    10 :> [config |-> [core |-> "He", items |-> <<<<2, "s", 2>>, <<2, "p", 6>>>>],
           valence |-> 8, block |-> "p"] @@
    11 :> [config |-> [core |-> "Ne", items |-> <<<<3, "s", 1>>>>],
           valence |-> 1, block |-> "s"] @@
    17 :> [config |-> [core |-> "Ne", items |-> <<<<3, "s", 2>>, <<3, "p", 5>>>>],
           valence |-> 7, block |-> "p"] @@
    19 :> [config |-> [core |-> "Ar", items |-> <<<<4, "s", 1>>>>],
           valence |-> 1, block |-> "s"] @@
    24 :> [config |-> [core |-> "Ar", items |-> <<<<3, "d", 5>>, <<4, "s", 1>>>>],
           valence |-> 1, block |-> "s"] @@
    26 :> [config |-> [core |-> "Ar", items |-> <<<<3, "d", 6>>, <<4, "s", 2>>>>],
           valence |-> 2, block |-> "s"] @@
    29 :> [config |-> [core |-> "Ar", items |-> <<<<3, "d", 10>>, <<4, "s", 1>>>>],
           valence |-> 1, block |-> "s"] @@
    30 :> [config |-> [core |-> "Ar", items |-> <<<<3, "d", 10>>, <<4, "s", 2>>>>],
           valence |-> 2, block |-> "s"] @@
    41 :> [config |-> [core |-> "Kr", items |-> <<<<4, "d", 4>>, <<5, "s", 1>>>>],
           valence |-> 1, block |-> "s"] @@
    42 :> [config |-> [core |-> "Kr", items |-> <<<<4, "d", 5>>, <<5, "s", 1>>>>],
           valence |-> 1, block |-> "s"] @@
    44 :> [config |-> [core |-> "Kr", items |-> <<<<4, "d", 7>>, <<5, "s", 1>>>>],
           valence |-> 1, block |-> "s"] @@
    46 :> [config |-> [core |-> "Kr", items |-> <<<<4, "d", 10>>>>],
           valence |-> 0, block |-> "d"] @@
    47 :> [config |-> [core |-> "Kr", items |-> <<<<4, "d", 10>>, <<5, "s", 1>>>>],
           valence |-> 1, block |-> "s"] @@
    57 :> [config |-> [core |-> "Xe", items |-> <<<<5, "d", 1>>, <<6, "s", 2>>>>],
           valence |-> 2, block |-> "s"] @@
    58 :> [config |-> [core |-> "Xe", items |-> <<<<4, "f", 1>>, <<5, "d", 1>>, <<6, "s", 2>>>>],
           valence |-> 2, block |-> "s"] @@
    64 :> [config |-> [core |-> "Xe", items |-> <<<<4, "f", 7>>, <<5, "d", 1>>, <<6, "s", 2>>>>],
           valence |-> 2, block |-> "s"] @@
    78 :> [config |-> [core |-> "Xe", items |-> <<<<4, "f", 14>>, <<5, "d", 9>>, <<6, "s", 1>>>>],
           valence |-> 1, block |-> "s"] @@
    79 :> [config |-> [core |-> "Xe", items |-> <<<<4, "f", 14>>, <<5, "d", 10>>, <<6, "s", 1>>>>],
           valence |-> 1, block |-> "s"] @@
    80 :> [config |-> [core |-> "Xe", items |-> <<<<4, "f", 14>>, <<5, "d", 10>>, <<6, "s", 2>>>>],
           valence |-> 2, block |-> "s"] @@
    89 :> [config |-> [core |-> "Rn", items |-> <<<<6, "d", 1>>, <<7, "s", 2>>>>],
           valence |-> 2, block |-> "s"] @@
    92 :> [config |-> [core |-> "Rn", items |-> <<<<5, "f", 3>>, <<6, "d", 1>>, <<7, "s", 2>>>>],
           valence |-> 2, block |-> "s"] @@
    118 :> [config |-> [core |-> "Rn", items |-> <<<<5, "f", 14>>, <<6, "d", 10>>, <<7, "s", 2>>, <<7, "p", 6>>>>],
            valence |-> 8, block |-> "p"] @@
    119 :> [config |-> [core |-> "Og", items |-> <<<<8, "s", 1>>>>],
            valence |-> 1, block |-> "s"] @@
    120 :> [config |-> [core |-> "Og", items |-> <<<<8, "s", 2>>>>],
            valence |-> 2, block |-> "s"]

(***************************************************************************)
(* ConfidenceScorer: profiles and the calls                                *)
(***************************************************************************)
\* A profile with base confidence 1.0 up to Z = 118 and `base` for
\* Z = 119..172, and the given bonus and penalty deltas for both modified
\* properties.
ScorerProfile(base, bonus, penalty) ==
    [z_ranges |-> <<
        [range |-> <<1, 118>>,
         confidence |-> [electron_configuration |-> 100, atomic_radius |-> 100,
                         electronegativity |-> 100, ionization_energy |-> 100,
                         oxidation_states |-> 100, half_life |-> 100]],
        [range |-> <<119, 172>>,
         confidence |-> [electron_configuration |-> base, atomic_radius |-> base,
                         electronegativity |-> base, ionization_energy |-> base,
                         oxidation_states |-> base, half_life |-> base]] >>,
     property_modifiers |->
        [electron_configuration |->
            [model_agreement_bonus |-> bonus, model_disagreement_penalty |-> penalty],
         half_life |->
            [island_of_stability_bonus |-> bonus,
             far_from_magic_numbers_penalty |-> penalty]]]

BaseConfidences == {0, 50, 100}

\* Deltas as a profile file may hold them: of either sign, small or large
ModifierDeltas == {-150, -10, 0, 10, 150}

ScorerProfiles ==
    {DefaultProfile, FlatProfile}
    \cup {ScorerProfile(b, bonus, penalty) :
            b \in BaseConfidences, bonus \in ModifierDeltas, penalty \in ModifierDeltas}

ScorerZ == {0, 1, 118, 119, 120, 172, 173}

NeutronCounts ==
    {None, Some(163), Some(164), Some(178), Some(179), Some(184), Some(189),
     Some(190), Some(204), Some(205)}

TrackedProperties ==
    {"atomic_radius", "electronegativity", "ionization_energy", "oxidation_states"}

ElectronConfigConfidence ==
    /\ op' = "electron_config_confidence"
    /\ ret' = Return(electron_config_confidence(profile, Z, agree))
    /\ UNCHANGED inputs

HalfLifeConfidence ==
    /\ op' = "half_life_confidence"
    /\ ret' = Return(half_life_confidence(profile, Z, neutrons))
    /\ UNCHANGED inputs

BaseConfidence ==
    /\ \E property \in TrackedProperties :
           /\ op' = property \o "_confidence"
           /\ ret' = Return(base_confidence(profile, Z, property))
    /\ UNCHANGED inputs

GetAllConfidences ==
    /\ op' = "get_all_confidences"
    /\ ret' = Return(get_all_confidences(profile, Z, neutrons))
    /\ UNCHANGED inputs

InitScorer ==
    /\ op = "init" /\ ret = NoCall
    /\ profile \in ScorerProfiles
    /\ Z \in ScorerZ
    /\ agree \in {"None", "True", "False"}
    /\ neutrons \in NeutronCounts
    /\ compact = TRUE /\ configuration = None /\ callers = <<>>
    /\ mendeleev = NoMendeleev /\ element_names = {}
    /\ BondingIdle /\ DetectorIdle /\ MeasureIdle /\ CallsIdle

NextScorer ==
    \/ ElectronConfigConfidence
    \/ HalfLifeConfidence
    \/ BaseConfidence
    \/ GetAllConfidences

SpecScorer == InitScorer /\ [][NextScorer]_vars

(***************************************************************************)
(* BondingRules: the call cycle, one activation record at a time           *)
(*                                                                         *)
(* can_bond calls predict_bond_order, which calls predict_all_bond_orders, *)
(* which calls can_bond.  stack holds the activation records, outermost    *)
(* first; every call passes (elem_a, elem_b) on unchanged.  A record is    *)
(* "start" until it makes its nested call and "waiting" while the callee   *)
(* runs; each function makes at most one nested call into the cycle.       *)
(***************************************************************************)
\* Largest number of activation records the interpreter is given
MaxCallDepth == 6

\* Variant: can_bond goes on to predict_bond_order without asking for the
\* electronegativities.
can_bond_callee_unchecked(a, b) ==
    IF is_noble_gas(a) \/ is_noble_gas(b) THEN "return"
    ELSE "predict_bond_order"

\* What can_bond does next from its start: return, or call predict_bond_order
can_bond_callee(a, b) ==
    IF is_noble_gas(a) THEN "return"
    ELSE IF is_noble_gas(b) THEN "return"
    ELSE IF a.electronegativity = None \/ b.electronegativity = None THEN "return"
    ELSE "predict_bond_order"

predict_bond_order_callee(a, b) ==
    IF a.atomic_number = 1 \/ b.atomic_number = 1 THEN "return"
    ELSE "predict_all_bond_orders"

predict_all_bond_orders_callee(a, b) ==
    IF is_noble_gas(a) \/ is_noble_gas(b) THEN "can_bond"
    ELSE IF a.electronegativity = None \/ b.electronegativity = None THEN "can_bond"
    ELSE "return"

CycleFunctions == {"can_bond", "predict_bond_order", "predict_all_bond_orders"}

Result(fn) ==
    CASE fn = "can_bond" -> Return(can_bond(elem_a, elem_b).value)
      [] fn = "predict_bond_order" -> Return(predict_bond_order(elem_a, elem_b).value)
      [] fn = "predict_all_bond_orders" ->
             Return(predict_all_bond_orders(elem_a, elem_b).value)

\* The caller invokes one of the three functions.
Call ==
    /\ stack = <<>> /\ op = "init"
    /\ \E fn \in CycleFunctions : stack' = <<[fn |-> fn, pc |-> "start"]>>
    /\ UNCHANGED <<op, ret, bondingArgs, generatorArgs, detectorArgs, measureArgs,
                   theoryArgs>>

\* The running activation of fn either makes its nested call or returns.
Run(fn, callee) ==
    /\ stack # <<>>
    /\ LET top == stack[Len(stack)]
       IN  /\ top.fn = fn
           /\ IF top.pc = "start" /\ callee # "return"
              THEN /\ Len(stack) < MaxCallDepth
                   /\ stack' = Append([stack EXCEPT ![Len(stack)].pc = "waiting"],
                                      [fn |-> callee, pc |-> "start"])
                   /\ UNCHANGED <<op, ret>>
              ELSE /\ stack' = SubSeq(stack, 1, Len(stack) - 1)
                   /\ IF Len(stack) = 1
                      THEN op' = fn /\ ret' = Result(fn)
                      ELSE UNCHANGED <<op, ret>>
    /\ UNCHANGED <<bondingArgs, generatorArgs, detectorArgs, measureArgs, theoryArgs>>

CanBondRun == Run("can_bond", can_bond_callee(elem_a, elem_b))

PredictBondOrderRun ==
    Run("predict_bond_order", predict_bond_order_callee(elem_a, elem_b))

PredictAllBondOrdersRun ==
    Run("predict_all_bond_orders", predict_all_bond_orders_callee(elem_a, elem_b))

CallElements ==
    [atomic_number : {1, 2, 6}, valence_electrons : {0, 2, 4, 8},
     electronegativity : {None, Some(250)},
     confidence : {[electron_configuration |-> 100, electronegativity |-> 100]}]

InitCalls ==
    /\ op = "init" /\ ret = NoCall
    /\ elem_a \in CallElements /\ elem_b \in CallElements
    /\ bond_order = 0 /\ bond_type = "none"
    /\ stack = <<>>
    /\ GeneratorIdle /\ DetectorIdle /\ MeasureIdle /\ TheoryIdle

NextCalls ==
    \/ Call
    \/ CanBondRun
    \/ PredictBondOrderRun
    \/ PredictAllBondOrdersRun

\* A call that has been made keeps running (every step changes the stack).
SpecCalls == InitCalls /\ [][NextCalls]_vars /\ WF_stack(NextCalls)

(***************************************************************************)
(* ConfidenceScorer: one scorer shared by concurrent callers               *)
(*                                                                         *)
(* Each caller invokes a method with its own arguments and later gets the  *)
(* score back; calls of different callers overlap in any order.  The       *)
(* methods bind range_config and modifiers to entries of self.profile and  *)
(* read them; none assigns to self.profile, self.z_ranges or an entry.     *)
(***************************************************************************)
\* Number of callers sharing the scorer
NumCallers == 2

Callers == 1..NumCallers

\* Variant: the lookup keeps only the range it found, as a cache.
profile_after_lookup_cached(self, z) ==
    LET range_config == _find_z_range(self, z)
    IN  IF range_config = 0 THEN self
        ELSE [self EXCEPT !.z_ranges = <<self.z_ranges[range_config]>>]

\* self.profile after a method has run for atomic number z
profile_after_lookup(self, z) == self

\* The methods a caller may invoke, with their arguments
ScorerInvocations ==
    [method : {"electron_config_confidence"}, z : {120, 173},
     arg : {"None", "True", "False"}]
    \cup [method : {"half_life_confidence"}, z : {120},
          arg : {None, Some(184), Some(205)}]
    \cup [method : {"get_all_confidences"}, z : {120}, arg : {None, Some(184)}]
    \cup [method : {"electronegativity_confidence"}, z : {1, 120}, arg : {None}]

\* The score the method returns when run on self
ScorerResult(self, call) ==
    CASE call.method = "electron_config_confidence" ->
             electron_config_confidence(self, call.z, call.arg)
      [] call.method = "half_life_confidence" ->
             half_life_confidence(self, call.z, call.arg)
      [] call.method = "get_all_confidences" ->
             get_all_confidences(self, call.z, call.arg)
      [] call.method = "electronegativity_confidence" ->
             base_confidence(self, call.z, "electronegativity")

IdleCaller == [pc |-> "idle", call |-> <<>>, result |-> <<>>]

\* Caller t invokes a method (or invokes the next one after a return).
Invoke(t) ==
    /\ callers[t].pc \in {"idle", "returned"}
    /\ \E call \in ScorerInvocations :
           callers' = [callers EXCEPT ![t] =
                          [pc |-> "running", call |-> <<call>>, result |-> <<>>]]
    /\ UNCHANGED <<op, ret, bondingArgs, generatorArgs, detectorArgs, measureArgs,
                   compact, configuration, agree, neutrons, stack>>

\* The method caller t invoked runs on the shared profile and returns.
Complete(t) ==
    /\ callers[t].pc = "running"
    /\ LET call == callers[t].call[1]
       IN  /\ callers' = [callers EXCEPT ![t] =
                             [pc |-> "returned", call |-> <<call>>,
                              result |-> <<ScorerResult(profile, call)>>]]
           /\ profile' = profile_after_lookup(profile, call.z)
           /\ op' = call.method
    /\ UNCHANGED <<ret, bondingArgs, Z, mendeleev, element_names, detectorArgs,
                   measureArgs, compact, configuration, agree, neutrons, stack>>

InitShared ==
    /\ op = "init" /\ ret = NoCall
    /\ profile \in {DefaultProfile, FlatProfile, ScorerProfile(50, 10, -10)}
    /\ callers = [t \in Callers |-> IdleCaller]
    /\ Z = 0 /\ mendeleev = NoMendeleev /\ element_names = {}
    /\ compact = TRUE /\ configuration = None
    /\ agree = "None" /\ neutrons = None
    /\ BondingIdle /\ DetectorIdle /\ MeasureIdle /\ CallsIdle

NextShared ==
    \/ \E t \in Callers : Invoke(t)
    \/ \E t \in Callers : Complete(t)

SpecShared == InitShared /\ [][NextShared]_vars

(***************************************************************************)
(* Bond prediction on generated elements: a caller generates the two       *)
(* operands with ElementGenerator.generate and hands them to               *)
(* BondingRules.  The mendeleev package is absent, so that every           *)
(* electronegativity is extrapolated.                                      *)
(***************************************************************************)
\* The atomic numbers the caller asks for.
RequestedZ == 1..173

GenerateFirst ==
    /\ elem_a = NoElement
    /\ \E z \in RequestedZ :
           /\ Z' = z
           /\ ret' = generate(profile, element_names, mendeleev, z)
    /\ op' = "generate"
    /\ elem_a' = IF ret'.raised = "none" THEN ret'.value ELSE elem_a
    /\ UNCHANGED <<elem_b, bond_order, bond_type, mendeleev, profile, element_names,
                   detectorArgs, measureArgs, theoryArgs, stack>>

GenerateSecond ==
    /\ elem_a # NoElement /\ elem_b = NoElement
    /\ \E z \in RequestedZ :
           /\ Z' = z
           /\ ret' = generate(profile, element_names, mendeleev, z)
    /\ op' = "generate"
    /\ elem_b' = IF ret'.raised = "none" THEN ret'.value ELSE elem_b
    /\ UNCHANGED <<elem_a, bond_order, bond_type, mendeleev, profile, element_names,
                   detectorArgs, measureArgs, theoryArgs, stack>>

CanBondGenerated ==
    /\ elem_a # NoElement /\ elem_b # NoElement
    /\ CanBond

PredictAllBondOrdersGenerated ==
    /\ elem_a # NoElement /\ elem_b # NoElement
    /\ PredictAllBondOrders

InitGenerated ==
    /\ op = "init" /\ ret = NoCall
    /\ Z = 0
    /\ mendeleev = NoMendeleev
    /\ profile = DefaultProfile
    /\ element_names = 1..118
    /\ BondingIdle /\ DetectorIdle
    /\ MeasureIdle /\ TheoryIdle /\ CallsIdle

NextGenerated ==
    \/ GenerateFirst
    \/ GenerateSecond
    \/ CanBondGenerated
    \/ PredictAllBondOrdersGenerated

SpecGenerated == InitGenerated /\ [][NextGenerated]_vars

(***************************************************************************)
(* Properties                                                              *)
(***************************************************************************)
ElementFields ==
    {"atomic_number", "symbol", "name", "electron_configuration",
     "valence_electrons", "block", "electronegativity", "status", "confidence"}

\* C1: generate(Z) returns a fully populated Element for every Z in [1,200]
\* and fails with a range error exactly when Z < 1 or Z > 200.
C1_GenerateRange ==
    op = "generate" =>
        /\ (1 <= Z /\ Z <= 200) =>
               /\ ret.raised = "none"
               /\ DOMAIN ret.value = ElementFields
               /\ ret.value.atomic_number = Z
        /\ ret.raised = "ValueError" <=> (Z < 1 \/ Z > 200)

\* The noble-gas condition as the specification states it.
IsInert(e) ==
    e.valence_electrons = 8 \/ (e.valence_electrons = 2 /\ e.atomic_number <= 2)

HasEN(e) == e.electronegativity # None

Bondable(a, b) == ~IsInert(a) /\ ~IsInert(b) /\ HasEN(a) /\ HasEN(b)

NoBond(p) == p.can_bond = "False" /\ p.bond_type = "none" /\ p.confidence = 100

FullConfidence == [electron_configuration |-> 100, electronegativity |-> 100]

\* C2: if either element is a noble gas, can_bond answers can_bond = false,
\* bond_type "none", confidence 1.0, naming an inert element in its reasoning,
\* whatever the other element is; predict_all_bond_orders returns a list
\* holding exactly that one prediction.
C2_NobleGasNoBond ==
    (IsInert(elem_a) \/ IsInert(elem_b)) =>
        /\ op = "can_bond" =>
               /\ ret.raised = "none"
               /\ NoBond(ret.value)
               /\ \E e \in {elem_a, elem_b} :
                      IsInert(e) /\ ret.value.reasoning.symbol = e.atomic_number
        /\ op = "predict_all_bond_orders" =>
               /\ ret.raised = "none"
               /\ Len(ret.value) = 1
               /\ NoBond(ret.value[1])

\* C2 witness: predict_all_bond_orders on a non-noble element without
\* electronegativity and a noble gas returned the single no-bond prediction.
C2_Witness ==
    /\ op = "predict_all_bond_orders"
    /\ ~IsInert(elem_a) /\ ~HasEN(elem_a) /\ elem_a.confidence # FullConfidence
    /\ IsInert(elem_b)
    /\ Len(ret.value) = 1 /\ NoBond(ret.value[1])

\* The smallest per-property confidence of the two elements over the two
\* properties consulted, a missing entry counting as 0.
WeakestLink(a, b) ==
    LET scores == {Get(e.confidence, prop, 0) :
                      e \in {a, b},
                      prop \in {"electron_configuration", "electronegativity"}}
    IN  CHOOSE m \in scores : \A x \in scores : m <= x

\* C3: for two non-noble elements with electronegativity, the confidence of
\* can_bond and of every prediction of predict_all_bond_orders is the minimum
\* of the elements' electron_configuration and electronegativity confidences.
C3_MinimumConfidence ==
    Bondable(elem_a, elem_b) =>
        /\ op = "can_bond" =>
               /\ ret.raised = "none"
               /\ ret.value.confidence = WeakestLink(elem_a, elem_b)
        /\ op = "predict_all_bond_orders" =>
               /\ ret.raised = "none"
               /\ \A i \in DOMAIN ret.value :
                      ret.value[i].confidence = WeakestLink(elem_a, elem_b)

\* C3 witness: confidences {0.85, 1.0} and {1.0, 1.0} gave 0.85.
C3_Witness ==
    /\ op = "can_bond"
    /\ Bondable(elem_a, elem_b)
    /\ elem_a.confidence =
           [electron_configuration |-> 85, electronegativity |-> 100]
    /\ elem_b.confidence = FullConfidence
    /\ ret.value.confidence = 85

DeltaEN(a, b) ==
    LET x == a.electronegativity[1]
        y == b.electronegativity[1]
    IN  IF x >= y THEN x - y ELSE y - x

\* C4: with both electronegativities present classify_bond_type returns
\* nonpolar_covalent for dEN < 0.5, polar_covalent for 0.5 <= dEN < 1.7 and
\* ionic for dEN >= 1.7, and the same for both argument orders.
C4_BondTypeThresholds ==
    (op = "classify_bond_type" /\ HasEN(elem_a) /\ HasEN(elem_b)) =>
        LET dEN == DeltaEN(elem_a, elem_b)
        IN  /\ ret.raised = "none"
            /\ ret.value \in {"nonpolar_covalent", "polar_covalent", "ionic"}
            /\ ret.value = "nonpolar_covalent" <=> dEN < 50
            /\ ret.value = "polar_covalent" <=> (50 <= dEN /\ dEN < 170)
            /\ ret.value = "ionic" <=> dEN >= 170
            /\ classify_bond_type(elem_b, elem_a) = ret

\* C4 witness: dEN exactly 0.5 was classified polar covalent.
C4_Witness ==
    /\ op = "classify_bond_type"
    /\ elem_a.electronegativity = Some(250)
    /\ elem_b.electronegativity = Some(300)
    /\ ret.value = "polar_covalent"

\* C5: when at least one element has atomic number 1, no prediction of
\* predict_all_bond_orders has a bond order above 1.
C5_HydrogenSingleBond ==
    (op = "predict_all_bond_orders"
        /\ (elem_a.atomic_number = 1 \/ elem_b.atomic_number = 1)) =>
        /\ ret.raised = "none"
        /\ \A i \in DOMAIN ret.value : ret.value[i].bond_order <= 1

\* C5 witness: carbon (4 valence electrons) with hydrogen gave the single
\* prediction of order 1.
C5_Witness ==
    /\ op = "predict_all_bond_orders"
    /\ elem_a.atomic_number = 6 /\ elem_a.valence_electrons = 4
    /\ elem_b.atomic_number = 1 /\ elem_b.valence_electrons = 1
    /\ HasEN(elem_a) /\ HasEN(elem_b)
    /\ Len(ret.value) = 1 /\ ret.value[1].bond_order = 1

\* Valence counts ElementGenerator derives for hydrogen, carbon, nitrogen
\* and oxygen.
GeneratedValence ==
    [z \in {1, 6, 7, 8} |-> count_valence(madelung_rule(z, TRUE).value)]

AsGenerated(e, z) ==
    e.atomic_number = z /\ e.valence_electrons = GeneratedValence[z]

\* The bond orders of a list of predictions
Orders(predictions) ==
    [i \in DOMAIN predictions |-> predictions[i].bond_order]

\* M of the claim: min(valence_a, valence_b, 3), forced to 1 with hydrogen,
\* capped at 2 for oxygen-oxygen.
ExpectedMaxOrder(a, b) ==
    LET candidates == {a.valence_electrons, b.valence_electrons, 3}
        M == CHOOSE m \in candidates : \A x \in candidates : m <= x
    IN  IF 1 \in {a.atomic_number, b.atomic_number} THEN 1
        ELSE IF {a.atomic_number, b.atomic_number} = {8} /\ M > 2 THEN 2
        ELSE M

\* C6: for two non-noble elements with electronegativity,
\* predict_all_bond_orders returns exactly the orders 1..M in ascending
\* order; C-C, C-O and N-N give [1,2,3], C-H gives [1], O-O gives [1,2].
C6_BondOrderEnumeration ==
    (op = "predict_all_bond_orders" /\ Bondable(elem_a, elem_b)) =>
        /\ ret.raised = "none"
        /\ Len(ret.value) = ExpectedMaxOrder(elem_a, elem_b)
        /\ \A i \in DOMAIN ret.value : ret.value[i].bond_order = i
        /\ (AsGenerated(elem_a, 6) /\ AsGenerated(elem_b, 6))
               => Orders(ret.value) = <<1, 2, 3>>
        /\ (AsGenerated(elem_a, 6) /\ AsGenerated(elem_b, 8))
               => Orders(ret.value) = <<1, 2, 3>>
        /\ (AsGenerated(elem_a, 7) /\ AsGenerated(elem_b, 7))
               => Orders(ret.value) = <<1, 2, 3>>
        /\ (AsGenerated(elem_a, 6) /\ AsGenerated(elem_b, 1))
               => Orders(ret.value) = <<1>>
        /\ (AsGenerated(elem_a, 8) /\ AsGenerated(elem_b, 8))
               => Orders(ret.value) = <<1, 2>>

\* C6 witness: oxygen-oxygen, 6 valence electrons each, gave orders [1,2].
C6_Witness ==
    /\ op = "predict_all_bond_orders"
    /\ Bondable(elem_a, elem_b)
    /\ AsGenerated(elem_a, 8) /\ AsGenerated(elem_b, 8)
    /\ GeneratedValence[8] = 6
    /\ Orders(ret.value) = <<1, 2>>

\* The stability table of the specification, keyed by the unordered pair of
\* atomic numbers; scores for the orders 1, 2, 3.
StabilityTable(za, zb) ==
    LET pair == {za, zb}
    IN  CASE pair = {6}    -> <<9000, 8800, 8500>>
          [] pair = {1, 6} -> <<9200, 1000, 1000>>
          [] pair = {6, 8} -> <<8500, 9500, 2000>>
          [] pair = {6, 7} -> <<8800, 8600, 8200>>
          [] pair = {7}    -> <<7000, 8000, 9500>>
          [] pair = {8}    -> <<8200, 9200, 500>>
          [] pair = {7, 8} -> <<8200, 8800, 6000>>
          [] OTHER         -> <<8500, 7650, 6375>>

\* C7: compute_stability_score follows the table for every pair, order 1..3
\* and bond character: ionic 0.90 at order 1 and 0.20 otherwise; the listed
\* pairs their per-order values whatever the argument order; any other
\* non-ionic pair 0.85 x 1.0 / 0.90 / 0.75; and predict_all_bond_orders(C, C)
\* carries 0.90, 0.88, 0.85.
C7_StabilityTable ==
    /\ (op = "compute_stability_score" /\ bond_order \in 1..3) =>
           /\ ret.raised = "none"
           /\ ret.value =
                  IF bond_type = "ionic"
                  THEN (IF bond_order = 1 THEN 9000 ELSE 2000)
                  ELSE StabilityTable(elem_a.atomic_number,
                                      elem_b.atomic_number)[bond_order]
    /\ (op = "predict_all_bond_orders"
           /\ elem_a.atomic_number = 6 /\ elem_b.atomic_number = 6) =>
           /\ ret.raised = "none"
           /\ [i \in DOMAIN ret.value |-> ret.value[i].stability_score]
                  = <<9000, 8800, 8500>>

\* C7 witness: the polar oxygen-carbon double bond, oxygen first, scored 0.95.
C7_Witness ==
    /\ op = "compute_stability_score"
    /\ elem_a.atomic_number = 8 /\ elem_b.atomic_number = 6
    /\ bond_order = 2 /\ bond_type = "polar_covalent"
    /\ ret.value = 9500

\* ret is the order of a most stable prediction of the list, 1 for the
\* empty list.
OrderOfMostStable(predictions, order) ==
    IF predictions = <<>> THEN order = 1
    ELSE \E i \in DOMAIN predictions :
             /\ predictions[i].bond_order = order
             /\ \A j \in DOMAIN predictions :
                    predictions[j].stability_score <= predictions[i].stability_score

\* C8 as claimed: for every pair, predict_bond_order returns the bond order
\* of a prediction with the highest stability score in
\* predict_all_bond_orders(a,b), and 1 when that list is empty.
C8_Original ==
    op = "predict_bond_order" =>
        /\ ret.raised = "none"
        /\ OrderOfMostStable(predict_all_bond_orders(elem_a, elem_b).value,
                             ret.value)

\* C8 amended: predict_bond_order returns 1 whenever either element is
\* hydrogen; for every other pair it returns the bond order of a prediction
\* with the highest stability score in predict_all_bond_orders(a,b), and 1
\* when that list is empty.
C8_MostStableOrder ==
    op = "predict_bond_order" =>
        /\ ret.raised = "none"
        /\ IF elem_a.atomic_number = 1 \/ elem_b.atomic_number = 1
           THEN ret.value = 1
           ELSE OrderOfMostStable(predict_all_bond_orders(elem_a, elem_b).value,
                                  ret.value)

\* C8 witness: carbon-oxygen, where the double bond (0.95) beats the single
\* (0.85) and the triple (0.20), returned order 2.
C8_Witness ==
    /\ op = "predict_bond_order"
    /\ Bondable(elem_a, elem_b)
    /\ AsGenerated(elem_a, 6) /\ AsGenerated(elem_b, 8)
    /\ DeltaEN(elem_a, elem_b) < 170
    /\ ret.value = 2

IsUnknown(p) ==
    /\ p.bond_type = "unknown" /\ p.can_bond = "None"
    /\ p.bond_order = 0 /\ p.confidence = 0

\* C9: when neither element is a noble gas and one lacks electronegativity,
\* can_bond returns (does not raise) the outcome bond_type "unknown",
\* can_bond None, bond_order 0, confidence 0, and predict_all_bond_orders
\* returns a list holding exactly that one prediction.
C9_MissingElectronegativity ==
    (~IsInert(elem_a) /\ ~IsInert(elem_b)
        /\ (~HasEN(elem_a) \/ ~HasEN(elem_b))) =>
        /\ op = "can_bond" =>
               ret.raised = "none" /\ IsUnknown(ret.value)
        /\ op = "predict_all_bond_orders" =>
               /\ ret.raised = "none"
               /\ Len(ret.value) = 1
               /\ IsUnknown(ret.value[1])

\* C9 witness: can_bond on carbon without electronegativity and oxygen with
\* one returned the unknown outcome.
C9_Witness ==
    /\ op = "can_bond"
    /\ elem_a.atomic_number = 6 /\ elem_a.valence_electrons = 4 /\ ~HasEN(elem_a)
    /\ elem_b.atomic_number = 8 /\ elem_b.valence_electrons = 6 /\ HasEN(elem_b)
    /\ ret.raised = "none" /\ IsUnknown(ret.value)

\* The label the specification's classification rule assigns.
ExpectedClass(t, rel, f) ==
    LET magnitude == IF rel < 0 THEN 0 - rel ELSE rel
        resonance == \/ f.conjugation > 500
                     \/ (f.num_cycles >= 1 /\ f.max_cycle_size >= 5)
        symmetry  == f.symmetry_order > 1
    IN  IF magnitude > 2 * t THEN "must_cache"
        ELSE IF magnitude < t /\ ~resonance /\ ~symmetry THEN "decomposes_cleanly"
        ELSE IF magnitude > t /\ (resonance \/ symmetry) THEN "must_cache"
        ELSE "uncertain"

\* C10: with threshold t, classify_violation returns must_cache if
\* |relative violation| > 2t; else decomposes_cleanly if it is < t with
\* neither resonance nor symmetry; else must_cache if it is > t with
\* resonance or symmetry; else uncertain; always one of the three labels.
C10_Classification ==
    op = "classify_violation" =>
        /\ ret.raised = "none"
        /\ ret.value \in {"must_cache", "decomposes_cleanly", "uncertain"}
        /\ ret.value =
               ExpectedClass(violation_threshold, relative_violation, features)

\* C10 witness: a violation between t and 2t on a structure whose only
\* special feature is one cycle of size 5 was classified must_cache.
C10_Witness ==
    /\ op = "classify_violation"
    /\ violation_threshold = 50 /\ relative_violation = -80
    /\ features.conjugation = 0 /\ features.symmetry_order = 1
    /\ features.num_cycles = 1 /\ features.max_cycle_size = 5
    /\ ret.value = "must_cache"

IsSixRing(s) ==
    /\ s.has_atoms /\ s.has_bonds
    /\ Len(s.atoms) = 6 /\ Len(s.bonds) = 6
    /\ \A k \in 1..6 : {s.bonds[k][1], s.bonds[k][2]} = {k - 1, k % 6}

AlternatingOrders(s) ==
    /\ \A k \in 1..6 : s.bonds[k][3] \in {10, 20}
    /\ \A k \in 1..6 : s.bonds[k][3] # s.bonds[(k % 6) + 1][3]

AromaticOrders(s) == \A k \in 1..6 : s.bonds[k][3] = 15

\* C12 as claimed: for the six-ring with alternating bond orders and any
\* actual value more stable than the naive sum (a larger bond energy, by
\* any amount), the default-threshold classification is "must_cache".
C12_Original ==
    (op = "measure_additivity_violation" /\ violation_threshold = 50
        /\ IsSixRing(molecule) /\ AlternatingOrders(molecule)
        /\ actual > naive) =>
        ret.value.classification = "must_cache"

\* C12 amended: for the six-ring with alternating bond orders and the
\* default threshold, the classification is "must_cache" whenever the actual
\* value differs from the naive sum by more than 5% of |actual|, and
\* "uncertain" for every smaller difference.
C12_BenzeneMustCache ==
    (op = "measure_additivity_violation" /\ violation_threshold = 50
        /\ IsSixRing(molecule) /\ AlternatingOrders(molecule)) =>
        /\ ret.raised = "none"
        /\ ret.value.classification =
               IF actual # 0 /\ 1000 * Abs(actual - naive) > 50 * Abs(actual)
               THEN "must_cache" ELSE "uncertain"

\* C12 witness: benzene with actual 1000 against naive 948 (5.2%) was
\* classified must_cache.
C12_Witness ==
    /\ op = "measure_additivity_violation" /\ violation_threshold = 50
    /\ IsSixRing(molecule) /\ AlternatingOrders(molecule)
    /\ actual = 1000 /\ naive = 948
    /\ ret.value.classification = "must_cache"

\* C13: for a six-ring whose bond orders alternate 1 and 2, or are all 1.5,
\* the conjugation score of the structural features is above 0.5 and at
\* most 1.0.
C13_RingConjugation ==
    (IsSixRing(molecule) /\ (AlternatingOrders(molecule) \/ AromaticOrders(molecule))) =>
        /\ op = "extract_structural_features" =>
               /\ ret.raised = "none"
               /\ ret.value.conjugation > 500 /\ ret.value.conjugation <= 1000
        /\ op = "measure_additivity_violation" =>
               /\ ret.raised = "none"
               /\ ret.value.structural_features.conjugation > 500
               /\ ret.value.structural_features.conjugation <= 1000

\* C13 witness: the ring with alternating orders scored 0.8.
C13_Witness ==
    /\ op = "extract_structural_features"
    /\ IsSixRing(molecule) /\ AlternatingOrders(molecule)
    /\ ret.value.conjugation = 800

\* A configuration string: an optional bracketed core and at least one
\* orbital entry
IsConfigurationString(c) ==
    /\ DOMAIN c = {"core", "items"}
    /\ c.core \in {""} \cup {NOBLE_GASES[ng] : ng \in DOMAIN NOBLE_GASES}
    /\ Len(c.items) >= 1
    /\ \A i \in DOMAIN c.items :
           /\ c.items[i][1] \in 1..10
           /\ c.items[i][2] \in {"s", "p", "d", "f", "g"}
           /\ c.items[i][3] >= 1

\* C14: madelung_rule(Z, compact) fails with a range error for every Z < 1
\* and every Z > 173 and returns a configuration string for every Z in
\* [1,173], in compact and in full mode.
C14_MadelungRange ==
    op = "madelung_rule" =>
        /\ (Z < 1 \/ Z > 173) => ret.raised = "ValueError"
        /\ (1 <= Z /\ Z <= 173) =>
               /\ ret.raised = "none"
               /\ IsConfigurationString(ret.value)
               /\ compact \/ ret.value.core = ""

\* C14 witness: Z = 173 in full mode returned a string, without a core.
C14_Witness ==
    /\ op = "madelung_rule" /\ Z = 173 /\ ~compact
    /\ ret.raised = "none" /\ IsConfigurationString(ret.value)
    /\ ret.value.core = ""

\* C15: for each reference element, madelung_rule(Z) in compact mode
\* returns exactly the listed string (for chromium "[Ar] 3d5 4s1", not the
\* idealized "[Ar] 3d4 4s2"), and count_valence and orbital_type of that
\* string return the listed valence count and block.
C15_ReferenceConfigurations ==
    (compact /\ Z \in DOMAIN REFERENCE_ELEMENTS) =>
        /\ op = "madelung_rule" =>
               /\ ret.raised = "none"
               /\ ret.value = REFERENCE_ELEMENTS[Z].config
        /\ configuration # None =>
               configuration[1] = REFERENCE_ELEMENTS[Z].config
        /\ op = "count_valence" =>
               ret.value = REFERENCE_ELEMENTS[Z].valence
        /\ op = "orbital_type" =>
               ret.value = REFERENCE_ELEMENTS[Z].block

\* C15 witness: count_valence of chromium's "[Ar] 3d5 4s1" returned 1.
C15_Witness ==
    /\ op = "count_valence" /\ Z = 24 /\ compact
    /\ configuration =
           Some([core |-> "Ar", items |-> << <<3, "d", 5>>, <<4, "s", 1>> >>])
    /\ ret.value = 1

\* The block of the periodic table an element of Z <= 118 stands in
PeriodicTableBlock(z) ==
    IF z \in {1, 2, 3, 4, 11, 12, 19, 20, 37, 38, 55, 56, 87, 88} THEN "s"
    ELSE IF z \in (5..10) \cup (13..18) \cup (31..36) \cup (49..54)
                  \cup (81..86) \cup (113..118) THEN "p"
    ELSE IF z \in (57..71) \cup (89..103) THEN "f"
    ELSE "d"

\* C16: for every Z in [1,118], in compact and full mode,
\* orbital_type(madelung_rule(Z)) is the element's periodic-table block
\* (manganese, "[Ar] 3d5 4s2", is 'd').
C16_PeriodicBlock ==
    (op = "orbital_type" /\ 1 <= Z /\ Z <= 118) =>
        ret.value = PeriodicTableBlock(Z)

\* The status category by the thresholds of the specification
StatusCategories ==
    {"observed", "synthesis_planned", "predicted", "supercritical", "impossible"}

\* C17: the status category is fixed by the atomic number alone: observed
\* for Z <= 118, synthesis-planned for 119-120, predicted for 121-137,
\* supercritical for 138-172, impossible for Z >= 173; exactly one category
\* for every Z.
C17_StatusThresholds ==
    op = "_classify_element" =>
        /\ ret.raised = "none"
        /\ ret.value \in StatusCategories
        /\ ret.value = "observed" <=> Z <= 118
        /\ ret.value = "synthesis_planned" <=> (119 <= Z /\ Z <= 120)
        /\ ret.value = "predicted" <=> (121 <= Z /\ Z <= 137)
        /\ ret.value = "supercritical" <=> (138 <= Z /\ Z <= 172)
        /\ ret.value = "impossible" <=> Z >= 173

\* C17 witness: Z = 173 was classified impossible.
C17_Witness ==
    /\ op = "_classify_element" /\ Z = 173
    /\ ret.value = "impossible"

\* Every base confidence of the profile lies in [0,1]
BasesInUnitInterval(p) ==
    \A i \in DOMAIN p.z_ranges :
        \A property \in DOMAIN p.z_ranges[i].confidence :
            p.z_ranges[i].confidence[property] \in 0..100

ScorerCalls ==
    {"electron_config_confidence", "half_life_confidence"}
    \cup {property \o "_confidence" : property \in TrackedProperties}

\* C18: for a profile whose base confidences lie in [0,1], every score the
\* scorer returns lies in [0,1], for every property, atomic number,
\* models_agree and neutron count, whatever the sign and size of the
\* configured bonus and penalty deltas.
C18_ScoresInUnitInterval ==
    BasesInUnitInterval(profile) =>
        /\ op \in ScorerCalls => ret.value \in 0..100
        /\ op = "get_all_confidences" =>
               \A property \in DOMAIN ret.value : ret.value[property] \in 0..100

\* C19: for every pair of elements predict_bond_order returns 1, 2 or 3.
C19_BondOrderRange ==
    op = "predict_bond_order" =>
        /\ ret.raised = "none"
        /\ ret.value \in {1, 2, 3}

\* A can_bond activation entered from predict_all_bond_orders is for a
\* noble-gas or missing-electronegativity pair and is the innermost one.
InnerCanBondReturns ==
    \A i \in DOMAIN stack :
        (stack[i].fn = "predict_all_bond_orders" /\ i < Len(stack)) =>
            /\ stack[i + 1].fn = "can_bond"
            /\ i + 1 = Len(stack)
            /\ \/ IsInert(elem_a) \/ IsInert(elem_b)
               \/ ~HasEN(elem_a) \/ ~HasEN(elem_b)

\* C20: every call of can_bond, predict_bond_order and
\* predict_all_bond_orders terminates for every pair of elements: the
\* can_bond call made inside predict_all_bond_orders is made only for a
\* noble-gas or missing-electronegativity pair and makes no further call, so
\* at most three activations are ever nested and every call returns.
C20_CallsTerminate ==
    /\ [](Len(stack) <= 3 /\ InnerCanBondReturns)
    /\ (stack # <<>>) ~> (stack = <<>> /\ op \in CycleFunctions)

\* C20 witness: predict_bond_order on a noble-gas pair without hydrogen is
\* three activations deep, the innermost being can_bond.
C20_Witness ==
    /\ Len(stack) = 3
    /\ stack[1].fn = "predict_bond_order"
    /\ stack[2].fn = "predict_all_bond_orders"
    /\ stack[3].fn = "can_bond"
    /\ IsInert(elem_a) \/ IsInert(elem_b)

\* Two callers that got a score back for the same method and arguments got
\* the same score, and each score is what the method gives on the profile.
ScoresDependOnArguments ==
    \A t \in DOMAIN callers :
        callers[t].pc = "returned" =>
            /\ callers[t].result = <<ScorerResult(profile, callers[t].call[1])>>
            /\ \A u \in DOMAIN callers :
                   (callers[u].pc = "returned" /\ callers[u].call = callers[t].call)
                       => callers[u].result = callers[t].result

\* C21: no ConfidenceScorer operation, in any order and under any
\* interleaving of concurrent callers, modifies the loaded profile, so every
\* lookup's result depends only on its own arguments and a repeated call
\* returns the same score.
C21_ProfileReadOnly ==
    /\ [][profile' = profile]_vars
    /\ []ScoresDependOnArguments

\* C21 witness: two callers have both been answered for Z = 120, one with
\* the plain lookup and one with models_agree = False, while sharing the
\* default profile.
C21_Witness ==
    /\ profile = DefaultProfile
    /\ DOMAIN callers = Callers
    /\ callers[1] = [pc |-> "returned",
                     call |-> <<[method |-> "electron_config_confidence",
                                 z |-> 120, arg |-> "False"]>>,
                     result |-> <<75>>]
    /\ callers[2] = [pc |-> "returned",
                     call |-> <<[method |-> "electron_config_confidence",
                                 z |-> 120, arg |-> "None"]>>,
                     result |-> <<85>>]

\* The structure exposes atoms and bonds, every bond joins two different
\* atoms of the structure and no two bonds join the same pair.
IsSimpleGraph(s) ==
    /\ s.has_atoms /\ s.has_bonds
    /\ \A k \in DOMAIN s.bonds :
           /\ s.bonds[k][1] \in 0..(Len(s.atoms) - 1)
           /\ s.bonds[k][2] \in 0..(Len(s.atoms) - 1)
           /\ s.bonds[k][1] # s.bonds[k][2]
    /\ \A k, m \in DOMAIN s.bonds :
           k # m => {s.bonds[k][1], s.bonds[k][2]} # {s.bonds[m][1], s.bonds[m][2]}

\* C22: the clustering coefficient reported by extract_structural_features
\* lies in [0.0, 1.0] for every structure that is a simple graph.
C22_ClusteringInUnitInterval ==
    (op = "extract_structural_features" /\ IsSimpleGraph(molecule)) =>
        /\ ret.value.clustering >= 0
        /\ ret.value.clustering <= 1000

\* C27: for every threshold t > 0 the magnitude word of the reasoning agrees
\* with the classification: must_cache never comes with "Small", and
\* decomposes_cleanly never with "Moderate" or "Large".
C27_MagnitudeAgreesWithClass ==
    (op = "measure_additivity_violation" /\ violation_threshold > 0) =>
        /\ ret.value.classification = "must_cache" =>
               ret.value.reasoning.magnitude # "small"
        /\ ret.value.classification = "decomposes_cleanly" =>
               ret.value.reasoning.magnitude \notin {"moderate", "large"}

\* Some bonds of the graph close a cycle: a non-empty set of bonds in which
\* every atom touched is touched at least twice.
HasCycle(s) ==
    \E S \in SUBSET (DOMAIN s.bonds) :
        /\ S # {}
        /\ \A k \in S : \A end \in {1, 2} :
               \E m \in S \ {k} : s.bonds[k][end] \in {s.bonds[m][1], s.bonds[m][2]}

\* C28: for every structure that is a simple graph, the empty graph and
\* disconnected graphs included, the reported num_cycles is 0 exactly when
\* the graph contains no cycle.
C28_CycleCountZeroIffAcyclic ==
    (op = "extract_structural_features" /\ IsSimpleGraph(molecule)) =>
        (ret.value.num_cycles = 0 <=> ~HasCycle(molecule))

\* C25: for every Z in [1, 173] count_valence returns the same number for
\* the compact and for the full configuration string of the element.
C25_ValenceSameInBothModes ==
    (/\ op = "count_valence" /\ Z \in 1..173
     /\ configuration = Some(madelung_rule(Z, compact).value)) =>
        ret.value = count_valence(madelung_rule(Z, ~compact).value)

\* Number of electrons listed by the items of a configuration string.
RECURSIVE ListedElectrons(_, _)
ListedElectrons(items, i) ==
    IF i = 0 THEN 0 ELSE ListedElectrons(items, i - 1) + items[i][3]

\* Atomic number of the noble gas whose symbol stands between the brackets.
CoreZ(symbol) == CHOOSE z \in DOMAIN NOBLE_GASES : NOBLE_GASES[z] = symbol

\* C26: for every Z in [1, 173] the occupations of the full configuration
\* sum to Z, each listed orbital holds between 1 electron and its capacity
\* and appears once; in compact mode the atomic number of the core plus the
\* listed occupations equals Z.
C26_ElectronCount ==
    (op = "madelung_rule" /\ Z \in 1..173) =>
        LET items == ret.value.items
        IN  IF compact
            THEN (IF ret.value.core = "" THEN 0 ELSE CoreZ(ret.value.core))
                     + ListedElectrons(items, Len(items)) = Z
            ELSE /\ ret.value.core = ""
                 /\ ListedElectrons(items, Len(items)) = Z
                 /\ \A i \in DOMAIN items :
                        /\ items[i][3] >= 1
                        /\ items[i][3] <= ORBITAL_CAPACITY[items[i][2]]
                 /\ \A i, j \in DOMAIN items :
                        i # j => <<items[i][1], items[i][2]>> # <<items[j][1], items[j][2]>>

\* Palladium in compact mode: the exception 4d10 after the krypton core.
C26_Witness ==
    /\ op = "madelung_rule" /\ Z = 46 /\ compact
    /\ ret = Return([core |-> "Kr", items |-> <<<<4, "d", 10>>>>])

\* Both arguments are generated elements of atomic number 1, 6, 7 or 8 whose
\* electronegativities do not make the pair ionic.
IsOrganicPair(a, b) ==
    /\ \E z \in {1, 6, 7, 8} : AsGenerated(a, z)
    /\ \E z \in {1, 6, 7, 8} : AsGenerated(b, z)
    /\ HasEN(a) /\ HasEN(b)
    /\ DeltaEN(a, b) < 170

\* The pairs the claim names, as sets of atomic numbers.
IsPair(a, b, x, y) == {a.atomic_number, b.atomic_number} = {x, y}

WithoutReasoning(p) ==
    [can_bond |-> p.can_bond, bond_type |-> p.bond_type, bond_order |-> p.bond_order,
     stability_score |-> p.stability_score, confidence |-> p.confidence,
     confidence_breakdown |-> p.confidence_breakdown]

\* Two results of can_bond agree on everything but the reasoning.
SamePrediction(r, q) ==
    /\ r.raised = q.raised
    /\ r.raised = "none" => WithoutReasoning(r.value) = WithoutReasoning(q.value)

\* Two results of predict_all_bond_orders agree position by position.
SamePredictions(r, q) ==
    /\ r.raised = q.raised
    /\ r.raised = "none" =>
           /\ Len(r.value) = Len(q.value)
           /\ \A i \in DOMAIN r.value :
                  WithoutReasoning(r.value[i]) = WithoutReasoning(q.value[i])

\* C29: bond prediction is symmetric in its arguments: can_bond(a,b) and
\* can_bond(b,a) agree on can_bond, bond_type, bond_order, stability_score,
\* confidence and confidence_breakdown, and predict_all_bond_orders(a,b)
\* and predict_all_bond_orders(b,a) agree on them position by position.
C29_Symmetric ==
    /\ op = "can_bond" => SamePrediction(ret, can_bond(elem_b, elem_a))
    /\ op = "predict_all_bond_orders" =>
           SamePredictions(ret, predict_all_bond_orders(elem_b, elem_a))

\* Carbon with oxygen, in this order, the pair the stability table lists
\* under one key for both orders of the arguments.
C29_Witness ==
    /\ op = "can_bond"
    /\ elem_a.atomic_number = 6 /\ elem_b.atomic_number = 8
    /\ elem_a.valence_electrons = 4 /\ elem_b.valence_electrons = 6
    /\ ret.raised = "none"
    /\ ret.value.bond_order = 2
    /\ ret.value.stability_score = 9500
    /\ ret.value.reasoning.symbol_a = 6

\* Both operands are elements generated for an atomic number in [1, 173].
BothGenerated ==
    elem_a.atomic_number \in 1..173 /\ elem_b.atomic_number \in 1..173

\* C24: for every pair of elements generated for Z in [1, 173] that are not
\* noble gases and have an electronegativity, predict_all_bond_orders(a, b)
\* is non-empty and contains a prediction whose bond_order equals the
\* bond_order reported by can_bond(a, b).
C24_PredictionsCoverCanBond ==
    (/\ op = "predict_all_bond_orders"
     /\ BothGenerated
     /\ Bondable(elem_a, elem_b)) =>
        /\ ret.value # <<>>
        /\ \E i \in DOMAIN ret.value :
               ret.value[i].bond_order = can_bond(elem_a, elem_b).value.bond_order

\* The electronegativity of the generated elements comes from extrapolation.
Extrapolated == ~mendeleev.MENDELEEV_AVAILABLE

\* C30: for every Z in [1, 173] the extrapolated electronegativity is absent
\* exactly when the generated element is a noble gas under is_noble_gas;
\* hence for two elements whose electronegativity is extrapolated, can_bond
\* never returns the "unknown" outcome.
C30_ExtrapolatedNeverUnknown ==
    (Extrapolated /\ BothGenerated) =>
        /\ (elem_a.electronegativity = None) <=> is_noble_gas(elem_a)
        /\ (elem_b.electronegativity = None) <=> is_noble_gas(elem_b)
        /\ op = "can_bond" =>
               /\ ret.raised = "none"
               /\ ret.value.bond_type # "unknown"
               /\ ret.value.can_bond # "None"

\* Helium with oganesson: neither has an extrapolated electronegativity and
\* the noble-gas gate answers for the first of them.
C30_Witness ==
    /\ Extrapolated
    /\ op = "can_bond"
    /\ elem_a.atomic_number = 2 /\ elem_b.atomic_number = 118
    /\ elem_a.electronegativity = None /\ elem_b.electronegativity = None
    /\ ret.value.bond_type = "none"
    /\ ret.value.reasoning.symbol = 2

====
